---- MODULE Spec2Model ----
(***************************************************************************)
(* Model of the baking cost calculator (App.tsx): the unit-conversion      *)
(* service (convertUnits, guessIngredientDensity and their tables).        *)
(*                                                                         *)
(* JavaScript numbers are modelled as exact rationals n/d in lowest terms; *)
(* NaN, the infinities, undefined, null and non-numeric objects are        *)
(* separate kinds of value, so that a lookup that misses a table, or hits  *)
(* a property inherited from Object.prototype, is told apart from a        *)
(* number.  Strings are TLA+ strings; toLowerCase, trim and includes are   *)
(* computed character by character.                                        *)
(***************************************************************************)
EXTENDS Integers, Sequences, FiniteSets, TLC

\* the arguments and results of the conversion service
VARIABLES pc, quantity, fromUnit, toUnit, ingredientName, branch, density,
          result, back

\* the application: the signed-in flag, the working recipe, the guest-mode
\* copies and localStorage, the Firestore hooks' data and the recipes
\* collection, the write requests issued so far, the Settings panel toggle,
\* the handler that ran last and what it alerted, and the number of handlers
\* run
VARIABLES user, recipe, localStorage, localCatalog, localIngredientDB,
          localSettings, recipesCollection, firestoreCatalog,
          firestoreIngredientDB, firestoreSettings, requests, showSettings,
          handler, alert, edits

\* Firestore beside the recipes: the ingredients collection, the document
\* settings/data, and the Settings writes whose setDoc has not resolved yet
VARIABLES ingredientsCollection, settingsDoc, awaited

convertVars == <<pc, quantity, fromUnit, toUnit, ingredientName, branch,
                 density, result, back>>

syncVars == <<ingredientsCollection, settingsDoc, awaited>>

appVars == <<user, recipe, localStorage, localCatalog, localIngredientDB,
             localSettings, recipesCollection, firestoreCatalog,
             firestoreIngredientDB, firestoreSettings, requests,
             showSettings, handler, alert, edits, syncVars>>

vars == <<convertVars, appVars>>

(***************************************************************************)
(* Bounds of the model.                                                    *)
(***************************************************************************)
MaxQuantity == 5
MaxDenominator == 2

(***************************************************************************)
(* JavaScript values.                                                      *)
(***************************************************************************)
RECURSIVE GCD(_, _)
GCD(a, b) == IF b = 0 THEN a ELSE GCD(b, a % b)

Abs(x) == IF x < 0 THEN -x ELSE x

Sign(x) == IF x < 0 THEN -1 ELSE IF x = 0 THEN 0 ELSE 1

RECURSIVE Pow10(_)
Pow10(e) == IF e = 0 THEN 1 ELSE 10 * Pow10(e - 1)

\* the finite number n/d (d > 0), in lowest terms
Num(n, d) ==
    LET g == GCD(Abs(n), d)
    IN  [t |-> "number", n |-> n \div g, d |-> d \div g]

\* the decimal literal m * 10^-e, e.g. 28.3495 is Dec(283495, 4)
Dec(m, e) == Num(m, Pow10(e))

NaN == [t |-> "NaN", n |-> 0, d |-> 1]

Infinity(sign) == [t |-> "Infinity", n |-> sign, d |-> 1]

Undefined == [t |-> "undefined", n |-> 0, d |-> 1]

Null == [t |-> "null", n |-> 0, d |-> 1]

\* a value that is an object or a function (Object, Object.prototype)
ObjectValue == [t |-> "object", n |-> 0, d |-> 1]

IsFinite(v) == v.t = "number"

\* ToNumber: undefined and the objects met here convert to NaN, null to 0
ToNumber(v) ==
    CASE v.t \in {"number", "NaN", "Infinity"} -> v
      [] v.t = "null" -> Num(0, 1)
      [] OTHER -> NaN

\* ToBoolean
Truthy(v) ==
    CASE v.t = "number" -> v.n # 0
      [] v.t \in {"Infinity", "object"} -> TRUE
      [] OTHER -> FALSE

\* a * b
Mul(x, y) ==
    LET a == ToNumber(x)
        b == ToNumber(y)
    IN  CASE a.t = "NaN" \/ b.t = "NaN" -> NaN
          [] a.t = "Infinity" \/ b.t = "Infinity" ->
                IF a.n = 0 \/ b.n = 0 THEN NaN
                ELSE Infinity(Sign(a.n) * Sign(b.n))
          [] OTHER ->
                LET g1 == GCD(Abs(a.n), b.d)
                    g2 == GCD(Abs(b.n), a.d)
                IN  [t |-> "number",
                     n |-> (a.n \div g1) * (b.n \div g2),
                     d |-> (a.d \div g2) * (b.d \div g1)]

\* a / b
Div(x, y) ==
    LET a == ToNumber(x)
        b == ToNumber(y)
    IN  CASE a.t = "NaN" \/ b.t = "NaN" -> NaN
          [] a.t = "Infinity" ->
                IF b.t = "Infinity" THEN NaN
                ELSE Infinity(a.n * (IF b.n < 0 THEN -1 ELSE 1))
          [] b.t = "Infinity" -> Num(0, 1)
          [] b.n = 0 -> IF a.n = 0 THEN NaN ELSE Infinity(Sign(a.n))
          [] OTHER ->
                Mul(a, [t |-> "number", n |-> Sign(b.n) * b.d, d |-> Abs(b.n)])

(***************************************************************************)
(* JavaScript strings.                                                     *)
(***************************************************************************)
UpperToLower ==
    "A" :> "a" @@ "B" :> "b" @@ "C" :> "c" @@ "D" :> "d" @@ "E" :> "e" @@
    "F" :> "f" @@ "G" :> "g" @@ "H" :> "h" @@ "I" :> "i" @@ "J" :> "j" @@
    "K" :> "k" @@ "L" :> "l" @@ "M" :> "m" @@ "N" :> "n" @@ "O" :> "o" @@
    "P" :> "p" @@ "Q" :> "q" @@ "R" :> "r" @@ "S" :> "s" @@ "T" :> "t" @@
    "U" :> "u" @@ "V" :> "v" @@ "W" :> "w" @@ "X" :> "x" @@ "Y" :> "y" @@
    "Z" :> "z"

WhiteSpace == {" ", "\t", "\n"}

RECURSIVE toLowerCase(_)
toLowerCase(s) ==
    IF Len(s) = 0 THEN ""
    ELSE LET c == SubSeq(s, 1, 1)
         IN  (IF c \in DOMAIN UpperToLower THEN UpperToLower[c] ELSE c)
                 \o toLowerCase(SubSeq(s, 2, Len(s)))

RECURSIVE trimStart(_)
trimStart(s) ==
    IF Len(s) > 0 /\ SubSeq(s, 1, 1) \in WhiteSpace
    THEN trimStart(SubSeq(s, 2, Len(s)))
    ELSE s

RECURSIVE trimEnd(_)
trimEnd(s) ==
    IF Len(s) > 0 /\ SubSeq(s, Len(s), Len(s)) \in WhiteSpace
    THEN trimEnd(SubSeq(s, 1, Len(s) - 1))
    ELSE s

trim(s) == trimEnd(trimStart(s))

\* s.includes(k)
includes(s, k) ==
    \E i \in 1..(Len(s) - Len(k) + 1) : SubSeq(s, i, i + Len(k) - 1) = k

(***************************************************************************)
(* The conversion tables.                                                  *)
(***************************************************************************)
WEIGHT_CONVERSIONS ==
    "g" :> Dec(1, 0) @@ "gram" :> Dec(1, 0) @@ "grams" :> Dec(1, 0) @@
    "kg" :> Dec(1000, 0) @@ "kilogram" :> Dec(1000, 0) @@
    "kilograms" :> Dec(1000, 0) @@
    "oz" :> Dec(283495, 4) @@ "ounce" :> Dec(283495, 4) @@
    "ounces" :> Dec(283495, 4) @@
    "lb" :> Dec(453592, 3) @@ "pound" :> Dec(453592, 3) @@
    "pounds" :> Dec(453592, 3) @@
    "ct" :> Dec(55, 0) @@ "count" :> Dec(55, 0) @@ "piece" :> Dec(55, 0)

VOLUME_CONVERSIONS ==
    "ml" :> Dec(1, 0) @@ "milliliter" :> Dec(1, 0) @@
    "milliliters" :> Dec(1, 0) @@
    "l" :> Dec(1000, 0) @@ "liter" :> Dec(1000, 0) @@ "liters" :> Dec(1000, 0) @@
    "tsp" :> Dec(492892, 5) @@ "teaspoon" :> Dec(492892, 5) @@
    "teaspoons" :> Dec(492892, 5) @@
    "tbsp" :> Dec(147868, 4) @@ "tablespoon" :> Dec(147868, 4) @@
    "tablespoons" :> Dec(147868, 4) @@
    "fl oz" :> Dec(295735, 4) @@
    "cup" :> Dec(236588, 3) @@ "cups" :> Dec(236588, 3) @@
    "pint" :> Dec(473176, 3) @@ "pints" :> Dec(473176, 3) @@
    "quart" :> Dec(946353, 3) @@ "quarts" :> Dec(946353, 3) @@
    "gal" :> Dec(378541, 2) @@ "gallon" :> Dec(378541, 2) @@
    "gallons" :> Dec(378541, 2)

\* Object.entries(INGREDIENT_DENSITIES): the entries in insertion order
INGREDIENT_DENSITIES == <<
    <<"water", Dec(10, 1)>>, <<"milk", Dec(103, 2)>>, <<"cream", Dec(101, 2)>>,
    <<"oil", Dec(92, 2)>>, <<"olive oil", Dec(92, 2)>>,
    <<"vegetable oil", Dec(92, 2)>>, <<"coconut oil", Dec(92, 2)>>,
    <<"butter", Dec(911, 3)>>, <<"honey", Dec(142, 2)>>,
    <<"syrup", Dec(137, 2)>>, <<"maple syrup", Dec(133, 2)>>,
    <<"molasses", Dec(142, 2)>>, <<"vanilla extract", Dec(88, 2)>>,
    <<"almond extract", Dec(88, 2)>>, <<"vanilla", Dec(88, 2)>>,
    <<"buttermilk", Dec(103, 2)>>, <<"yogurt", Dec(104, 2)>>,
    <<"kefir", Dec(104, 2)>>, <<"sour cream", Dec(102, 2)>>,
    <<"cream cheese", Dec(104, 2)>>, <<"sourdough starter", Dec(10, 1)>>,
    <<"eggs", Dec(103, 2)>>, <<"egg", Dec(103, 2)>>,
    <<"flour", Dec(528, 3)>>, <<"all-purpose flour", Dec(528, 3)>>,
    <<"bread flour", Dec(54, 2)>>, <<"cake flour", Dec(51, 2)>>,
    <<"whole wheat flour", Dec(51, 2)>>, <<"rye flour", Dec(53, 2)>>,
    <<"sugar", Dec(845, 3)>>, <<"granulated sugar", Dec(845, 3)>>,
    <<"brown sugar", Dec(845, 3)>>, <<"powdered sugar", Dec(56, 2)>>,
    <<"confectioners sugar", Dec(56, 2)>>,
    <<"salt", Dec(1217, 3)>>, <<"baking powder", Dec(9, 1)>>,
    <<"baking soda", Dec(9, 1)>>, <<"yeast", Dec(64, 2)>>,
    <<"cinnamon", Dec(56, 2)>>, <<"spice", Dec(56, 2)>>,
    <<"spices", Dec(56, 2)>>,
    <<"cocoa", Dec(54, 2)>>, <<"cocoa powder", Dec(54, 2)>>,
    <<"cornstarch", Dec(68, 2)>>, <<"chocolate chips", Dec(68, 2)>>,
    <<"chocolate", Dec(68, 2)>>, <<"nuts", Dec(53, 2)>>,
    <<"chopped nuts", Dec(53, 2)>>, <<"raisins", Dec(68, 2)>>,
    <<"dried fruit", Dec(68, 2)>>, <<"coconut", Dec(35, 2)>>,
    <<"shredded coconut", Dec(35, 2)>>, <<"oats", Dec(34, 2)>>,
    <<"rolled oats", Dec(34, 2)>> >>

\* the property names every object literal inherits from Object.prototype
OBJECT_PROTOTYPE_KEYS ==
    {"constructor", "__proto__", "toString", "toLocaleString", "valueOf",
     "hasOwnProperty", "isPrototypeOf", "propertyIsEnumerable",
     "__defineGetter__", "__defineSetter__", "__lookupGetter__",
     "__lookupSetter__"}

\* table[key]: an own entry, else an inherited property, else undefined
Get(table, key) ==
    IF key \in DOMAIN table THEN table[key]
    ELSE IF key \in OBJECT_PROTOTYPE_KEYS THEN ObjectValue
    ELSE Undefined

(***************************************************************************)
(* guessIngredientDensity                                                  *)
(***************************************************************************)
\* densityLoop falling back to the density of water instead of null
RECURSIVE densityLoopDefaultWater(_, _)
densityLoopDefaultWater(name, i) ==
    IF i > Len(INGREDIENT_DENSITIES) THEN Dec(10, 1)
    ELSE IF includes(name, INGREDIENT_DENSITIES[i][1])
         THEN INGREDIENT_DENSITIES[i][2]
         ELSE densityLoopDefaultWater(name, i + 1)

\* densityLoop that keeps looking after a match and returns the last one
RECURSIVE densityLoopLastMatch(_, _)
densityLoopLastMatch(name, i) ==
    IF i > Len(INGREDIENT_DENSITIES) THEN Null
    ELSE LET later == densityLoopLastMatch(name, i + 1)
         IN  IF later # Null THEN later
             ELSE IF includes(name, INGREDIENT_DENSITIES[i][1])
                  THEN INGREDIENT_DENSITIES[i][2]
                  ELSE Null

\* the for loop over Object.entries(INGREDIENT_DENSITIES), from entry i on
RECURSIVE densityLoop(_, _)
densityLoop(name, i) ==
    IF i > Len(INGREDIENT_DENSITIES) THEN Null
    ELSE IF includes(name, INGREDIENT_DENSITIES[i][1])
         THEN INGREDIENT_DENSITIES[i][2]
         ELSE densityLoop(name, i + 1)

\* guessIngredientDensity matching the name as typed
guessIngredientDensityCaseSensitive(name) == densityLoop(name, 1)

guessIngredientDensity(name) == densityLoop(toLowerCase(name), 1)

(***************************************************************************)
(* convertUnits                                                            *)
(***************************************************************************)
\* const from = fromUnit.toLowerCase().trim()
normalizeUnit(unit) == trim(toLowerCase(unit))

\* WEIGHT_CONVERSIONS[from] && WEIGHT_CONVERSIONS[to]
bothWeight(from, to) ==
    Truthy(Get(WEIGHT_CONVERSIONS, from)) /\ Truthy(Get(WEIGHT_CONVERSIONS, to))

\* VOLUME_CONVERSIONS[from] && VOLUME_CONVERSIONS[to]
bothVolume(from, to) ==
    Truthy(Get(VOLUME_CONVERSIONS, from)) /\ Truthy(Get(VOLUME_CONVERSIONS, to))

isVolume(unit) == Get(VOLUME_CONVERSIONS, unit) # Undefined

isWeight(unit) == Get(WEIGHT_CONVERSIONS, unit) # Undefined

\* (isFromVolume && isToWeight) || (isFromWeight && isToVolume)
crossCategory(from, to) ==
    (isVolume(from) /\ isWeight(to)) \/ (isWeight(from) /\ isVolume(to))

\* convertWeight with the two factors exchanged
convertWeightSwapped(q, from, to) ==
    Div(Mul(q, Get(WEIGHT_CONVERSIONS, to)), Get(WEIGHT_CONVERSIONS, from))

\* convertWeight that never converts the quantity to grams
convertWeightNoGrams(q, from, to) == Div(q, Get(WEIGHT_CONVERSIONS, to))

\* const grams = quantity * WEIGHT_CONVERSIONS[from]
\* return grams / WEIGHT_CONVERSIONS[to]
convertWeight(q, from, to) ==
    LET grams == Mul(q, Get(WEIGHT_CONVERSIONS, from))
    IN  Div(grams, Get(WEIGHT_CONVERSIONS, to))

\* const ml = quantity * VOLUME_CONVERSIONS[from]
\* return ml / VOLUME_CONVERSIONS[to]
convertVolume(q, from, to) ==
    LET ml == Mul(q, Get(VOLUME_CONVERSIONS, from))
    IN  Div(ml, Get(VOLUME_CONVERSIONS, to))

\* volumeToWeight that takes milliliters for grams
volumeToWeightNoDensity(q, from, to, d) ==
    Div(Mul(q, Get(VOLUME_CONVERSIONS, from)), Get(WEIGHT_CONVERSIONS, to))

\* Volume -> Weight: to ml, then to grams using density, then to target unit
volumeToWeight(q, from, to, d) ==
    LET ml == Mul(q, Get(VOLUME_CONVERSIONS, from))
        grams == Mul(ml, d)
    IN  Div(grams, Get(WEIGHT_CONVERSIONS, to))

\* weightToVolume that multiplies by the density
weightToVolumeTimesDensity(q, from, to, d) ==
    Div(Mul(Mul(q, Get(WEIGHT_CONVERSIONS, from)), d),
        Get(VOLUME_CONVERSIONS, to))

\* Weight -> Volume: to grams, then to ml using density, then to target unit
weightToVolume(q, from, to, d) ==
    LET grams == Mul(q, Get(WEIGHT_CONVERSIONS, from))
        ml == Div(grams, d)
    IN  Div(ml, Get(VOLUME_CONVERSIONS, to))

\* convertBranch without the same-unit short-circuit
convertBranchNoSameUnit(from, to, name) ==
    IF bothWeight(from, to) THEN "weight"
    ELSE IF bothVolume(from, to) THEN "volume"
    ELSE IF crossCategory(from, to)
         THEN IF Truthy(guessIngredientDensity(name))
              THEN IF isVolume(from) /\ isWeight(to)
                   THEN "volumeToWeight"
                   ELSE "weightToVolume"
              ELSE "unknownDensity"
    ELSE "cannotConvert"

\* the branch of convertUnits that returns, for normalized units
convertBranch(from, to, name) ==
    IF from = to THEN "same"
    ELSE IF bothWeight(from, to) THEN "weight"
    ELSE IF bothVolume(from, to) THEN "volume"
    ELSE IF crossCategory(from, to)
         THEN IF Truthy(guessIngredientDensity(name))
              THEN IF isVolume(from) /\ isWeight(to)
                   THEN "volumeToWeight"
                   ELSE "weightToVolume"
              ELSE "unknownDensity"
    ELSE "cannotConvert"

convertUnits(q, fromU, toU, name) ==
    LET from == normalizeUnit(fromU)
        to == normalizeUnit(toU)
        b == convertBranch(from, to, name)
    IN  CASE b = "same" -> q
          [] b = "weight" -> convertWeight(q, from, to)
          [] b = "volume" -> convertVolume(q, from, to)
          [] b = "volumeToWeight" ->
                volumeToWeight(q, from, to, guessIngredientDensity(name))
          [] b = "weightToVolume" ->
                weightToVolume(q, from, to, guessIngredientDensity(name))
          [] b = "unknownDensity" -> q
          [] OTHER -> q

(***************************************************************************)
(* More JavaScript arithmetic, used by the cost calculations.              *)
(***************************************************************************)
\* the integer literal k
Whole(k) == [t |-> "number", n |-> k, d |-> 1]

\* a + b
Add(x, y) ==
    LET a == ToNumber(x)
        b == ToNumber(y)
    IN  CASE a.t = "NaN" \/ b.t = "NaN" -> NaN
          [] a.t = "Infinity" /\ b.t = "Infinity" ->
                IF a.n = b.n THEN a ELSE NaN
          [] a.t = "Infinity" -> a
          [] b.t = "Infinity" -> b
          [] OTHER ->
                LET g == GCD(a.d, b.d)
                    l == (a.d \div g) * b.d
                IN  Num(a.n * (l \div a.d) + b.n * (l \div b.d), l)

\* a > 0
GreaterThanZero(x) ==
    LET a == ToNumber(x)
    IN  a.t \in {"number", "Infinity"} /\ a.n > 0

\* a ?? b
Coalesce(a, b) == IF a.t \in {"undefined", "null"} THEN b ELSE a

(***************************************************************************)
(* CALCULATIONS: the cost breakdown computed on every render.              *)
(***************************************************************************)
ovenBTU == 25000

ovenEfficiency == Dec(65, 2)

mixerWattage == 300

\* const pricePerPackageUnit = ing.packageSize > 0 ? ... : 0
pricePerPackageUnit(ing) ==
    IF GreaterThanZero(ing.packageSize)
    THEN Div(ing.packagePrice, ing.packageSize)
    ELSE Whole(0)

\* the entry of ingredientCosts for one ingredient line
ingredientCost(ing) ==
    LET convertedQuantity ==
            convertUnits(ing.quantity, ing.unit, ing.packageUnit, ing.name)
        price == pricePerPackageUnit(ing)
    IN  [name |-> ing.name,
         quantity |-> ing.quantity,
         unit |-> ing.unit,
         convertedQuantity |-> convertedQuantity,
         packageUnit |-> ing.packageUnit,
         pricePerPackageUnit |-> price,
         cost |-> Mul(convertedQuantity, price)]

\* ingredients.map(...) that drops the lines without a package size
ingredientCostsSkippingUnpriced(ingredients) ==
    LET priced == SelectSeq(ingredients,
                            LAMBDA ing : GreaterThanZero(ing.packageSize))
    IN  [i \in 1..Len(priced) |-> ingredientCost(priced[i])]

\* const ingredientCosts = ingredients.map(ing => ...)
ingredientCosts(ingredients) ==
    [i \in 1..Len(ingredients) |-> ingredientCost(ingredients[i])]

\* costs.reduce((sum, c) => sum + c.cost, 0), from entry i on
RECURSIVE reduceCost(_, _, _)
reduceCost(costs, i, sum) ==
    IF i > Len(costs) THEN sum
    ELSE reduceCost(costs, i + 1, Add(sum, costs[i].cost))

sumCosts(costs) == reduceCost(costs, 1, Whole(0))

\* thermsUsed that multiplies by the oven efficiency
thermsUsedTimesEfficiency(r) ==
    Mul(Div(Mul(Whole(ovenBTU), Div(Add(r.preheatTime, r.bakeTime), Whole(60))),
            Whole(100000)),
        ovenEfficiency)

\* const totalOvenTime = (preheatTime + bakeTime) / 60
\* const thermsUsed = (ovenBTU * totalOvenTime) / 100000 / ovenEfficiency
thermsUsed(r) ==
    LET totalOvenTime == Div(Add(r.preheatTime, r.bakeTime), Whole(60))
    IN  Div(Div(Mul(Whole(ovenBTU), totalOvenTime), Whole(100000)),
            ovenEfficiency)

\* const gasCost = thermsUsed * gasRate
gasCost(r) == Mul(thermsUsed(r), r.gasRate)

\* const mixerKWh = (mixerWattage * mixerHours) / 1000
mixerKWh(r) ==
    LET mixerHours == Div(r.mixerTime, Whole(60))
    IN  Div(Mul(Whole(mixerWattage), mixerHours), Whole(1000))

\* const mixerCost = mixerKWh * electricRate
mixerCost(r) == Mul(mixerKWh(r), r.electricRate)

\* stovetopCost that always takes the default burner of Settings
stovetopCostIgnoringOverride(process, r, s) ==
    LET durationHours == Div(process.duration, Whole(60))
        powerFraction == Div(process.powerLevel, Whole(100))
    IN  IF process.stoveType = "gas"
        THEN LET therms ==
                     Div(Div(Mul(Mul(s.gasBurnerBTU, powerFraction),
                                 durationHours), Whole(100000)),
                         s.gasBurnerEfficiency)
             IN  [name |-> process.name, type |-> "gas", therms |-> therms,
                  kWh |-> Whole(0), cost |-> Mul(therms, r.gasRate)]
        ELSE LET wattage == IF process.stoveType = "induction"
                            THEN s.inductionBurnerWattage
                            ELSE s.electricBurnerWattage
                 efficiency == IF process.stoveType = "induction"
                               THEN s.inductionBurnerEfficiency
                               ELSE s.electricBurnerEfficiency
                 kWh == Div(Div(Mul(Mul(wattage, powerFraction),
                                    durationHours), Whole(1000)), efficiency)
             IN  [name |-> process.name, type |-> process.stoveType,
                  therms |-> Whole(0), kWh |-> kWh,
                  cost |-> Mul(kWh, r.electricRate)]

\* the entry of stovetopCosts for one process
stovetopCost(process, r, s) ==
    LET durationHours == Div(process.duration, Whole(60))
        powerFraction == Div(process.powerLevel, Whole(100))
    IN  IF process.stoveType = "gas"
        THEN LET burnerBTU == Coalesce(process.burnerBTU, s.gasBurnerBTU)
                 effectiveBTU == Mul(burnerBTU, powerFraction)
                 therms == Div(Div(Mul(effectiveBTU, durationHours),
                                   Whole(100000)), s.gasBurnerEfficiency)
             IN  [name |-> process.name, type |-> "gas", therms |-> therms,
                  kWh |-> Whole(0), cost |-> Mul(therms, r.gasRate)]
        ELSE LET wattage ==
                     Coalesce(process.burnerWattage,
                              IF process.stoveType = "induction"
                              THEN s.inductionBurnerWattage
                              ELSE s.electricBurnerWattage)
                 effectiveWattage == Mul(wattage, powerFraction)
                 efficiency == IF process.stoveType = "induction"
                               THEN s.inductionBurnerEfficiency
                               ELSE s.electricBurnerEfficiency
                 kWh == Div(Div(Mul(effectiveWattage, durationHours),
                                Whole(1000)), efficiency)
             IN  [name |-> process.name, type |-> process.stoveType,
                  therms |-> Whole(0), kWh |-> kWh,
                  cost |-> Mul(kWh, r.electricRate)]

\* const stovetopCosts = stovetopProcesses.map(process => ...)
stovetopCosts(r, s) ==
    [i \in 1..Len(r.stovetopProcesses) |->
        stovetopCost(r.stovetopProcesses[i], r, s)]

\* totalEnergyCost without the stovetop processes
totalEnergyCostOvenAndMixer(gas, mixer, stovetop) == Add(gas, mixer)

\* const totalEnergyCost = gasCost + mixerCost + totalStovetopCost
totalEnergyCost(gas, mixer, stovetop) == Add(Add(gas, mixer), stovetop)

\* const totalLaborCost = laborHours * laborRate
totalLaborCost(r) == Mul(Div(r.laborTime, Whole(60)), r.laborRate)

\* const totalPackagingCost = packagingCost * yieldQty
totalPackagingCost(r) == Mul(r.packagingCost, r.yieldQty)

\* grandTotal that counts the packaging cost once, not per yield unit
grandTotalFlatPackaging(ingredientTotal, energy, labor, packaging, r) ==
    Add(Add(Add(ingredientTotal, energy), labor), r.packagingCost)

\* const grandTotal = totalIngredientCost + totalEnergyCost
\*                    + totalLaborCost + totalPackagingCost
grandTotal(ingredientTotal, energy, labor, packaging, r) ==
    Add(Add(Add(ingredientTotal, energy), labor), packaging)

\* const grandTotalWithoutLabor = totalIngredientCost + totalEnergyCost
\*                                + totalPackagingCost
grandTotalWithoutLabor(ingredientTotal, energy, packaging) ==
    Add(Add(ingredientTotal, energy), packaging)

\* perUnit without the yieldQty > 0 guard
perUnitUnguarded(total, yieldQty) == Div(total, yieldQty)

\* yieldQty > 0 ? total / yieldQty : 0
perUnit(total, yieldQty) ==
    IF GreaterThanZero(yieldQty) THEN Div(total, yieldQty) ELSE Whole(0)

\* the figures of one render, gathered into one record
Breakdown(ic, ingredientTotal, sc, stovetop, gas, mixer, energy, labor, packaging, total, withoutLabor, r) ==
    [ingredientCosts |-> ic,
     totalIngredientCost |-> ingredientTotal,
     thermsUsed |-> thermsUsed(r),
     gasCost |-> gas,
     mixerKWh |-> mixerKWh(r),
     mixerCost |-> mixer,
     stovetopCosts |-> sc,
     totalStovetopCost |-> stovetop,
     totalEnergyCost |-> energy,
     totalLaborCost |-> labor,
     totalPackagingCost |-> packaging,
     grandTotal |-> total,
     grandTotalWithoutLabor |-> withoutLabor,
     costPerUnit |-> perUnit(total, r.yieldQty),
     costPerUnitWithoutLabor |-> perUnit(withoutLabor, r.yieldQty)]

\* lines 822-824: the grand totals from the four components
CalculateGrandTotals(ic, ingredientTotal, sc, stovetop, gas, mixer, energy, labor, packaging, r) ==
    Breakdown(ic, ingredientTotal, sc, stovetop, gas, mixer, energy, labor,
              packaging,
              grandTotal(ingredientTotal, energy, labor, packaging, r),
              grandTotalWithoutLabor(ingredientTotal, energy, packaging),
              r)

\* lines 756-820: the totals of the lines, the energy, labor and packaging
CalculateTotals(ic, sc, gas, mixer, stovetop, r) ==
    CalculateGrandTotals(ic, sumCosts(ic), sc, stovetop, gas, mixer,
                         totalEnergyCost(gas, mixer, stovetop),
                         totalLaborCost(r), totalPackagingCost(r), r)

\* lines 722-809: the line costs, the oven, the mixer and the processes
CalculateLines(ic, sc, r) ==
    CalculateTotals(ic, sc, gasCost(r), mixerCost(r), sumCosts(sc), r)

\* everything lines 719-828 compute from the recipe inputs and the Settings
Calculate(r, s) ==
    CalculateLines(ingredientCosts(r.ingredients), stovetopCosts(r, s), r)

(***************************************************************************)
(* The inputs of the model.                                                *)
(***************************************************************************)
Quantities ==
    {Num(n, d) : n \in (-1)..MaxQuantity, d \in 1..MaxDenominator}

\* unit strings as typed: table units in several spellings, unknown units
UnitStrings ==
    {"g", " G ", "Ounces", "oz", "Lb", "ct",
     "ml", "cup", "Cups ", "tbsp", "fl oz",
     "xyz", " XYZ", "constructor", "__proto__", "toString"}

IngredientNames ==
    {"", "water", "Bread Flour", "brown sugar", "Honey", "xyz"}

\* names for guessIngredientDensity alone
DensityNames ==
    IngredientNames \cup
    {"Water", "WATER", "flour", "powdered sugar", "maple syrup",
     "cream cheese", "buttermilk", "Buttermilk (cultured)", "coconut oil",
     "chocolate chip cookies", "shredded coconut", "egg", "Eggs", "Large egg",
     "rolled oats", "sea salt", "Unsalted Butter", "cocoa powder", "yeast",
     "oi", "sug ar", "vanilla extract", "almond milk", "nutmeg", "peanuts",
     "olive oil", "vegetable oil", "sour cream", "all-purpose flour",
     "cake flour", "whole wheat flour", "rye flour", "granulated sugar",
     "confectioners sugar", "spices", "chopped nuts"}

(***************************************************************************)
(* The application state: Settings, catalog, ingredient database and the   *)
(* working recipe.                                                         *)
(***************************************************************************)
Digits == <<"0", "1", "2", "3", "4", "5", "6", "7", "8", "9">>

\* Number.prototype.toString of a natural number
RECURSIVE NatToString(_)
NatToString(k) ==
    IF k < 10 THEN Digits[k + 1]
    ELSE NatToString(k \div 10) \o Digits[(k % 10) + 1]

\* JSON.parse(JSON.stringify(v)) of a number: NaN and Infinity become null
JSONNumber(v) == IF v.t \in {"NaN", "Infinity"} THEN Null ELSE v

\* the fallback Settings of the guest mode
DefaultLocalSettings ==
    [laborRate |-> Whole(20),
     gasRate |-> Dec(26, 1),
     electricRate |-> Dec(18, 2),
     packagingOptions |->
        <<[id |-> "1", name |-> "Cake board and box", cost |-> Whole(2)],
          [id |-> "2", name |-> "Bread bag", cost |-> Dec(2, 1)]>>,
     stoveType |-> "gas",
     gasBurnerBTU |-> Whole(12000),
     electricBurnerWattage |-> Whole(1500),
     inductionBurnerWattage |-> Whole(1800),
     gasBurnerEfficiency |-> Dec(4, 1),
     electricBurnerEfficiency |-> Dec(75, 2),
     inductionBurnerEfficiency |-> Dec(85, 2)]

\* the defaultValue handed to useFirestoreDoc('settings/data', ...)
DefaultFirestoreSettings ==
    [DefaultLocalSettings EXCEPT !.packagingOptions = <<>>]

defaultIngredients ==
    <<[id |-> "1", name |-> "Flour", packageSize |-> Whole(1),
       packageUnit |-> "kg", packagePrice |-> Dec(25, 1)],
      [id |-> "2", name |-> "Kefir", packageSize |-> Whole(1),
       packageUnit |-> "L", packagePrice |-> Whole(3)],
      [id |-> "3", name |-> "Milk", packageSize |-> Whole(1),
       packageUnit |-> "L", packagePrice |-> Dec(15, 1)],
      [id |-> "4", name |-> "Water", packageSize |-> Whole(1),
       packageUnit |-> "L", packagePrice |-> Dec(1, 1)],
      [id |-> "5", name |-> "Eggs", packageSize |-> Whole(12),
       packageUnit |-> "eggs", packagePrice |-> Whole(4)],
      [id |-> "6", name |-> "Yeast", packageSize |-> Whole(100),
       packageUnit |-> "g", packagePrice |-> Whole(2)],
      [id |-> "7", name |-> "Salt", packageSize |-> Whole(1),
       packageUnit |-> "kg", packagePrice |-> Whole(1)],
      [id |-> "8", name |-> "Sugar", packageSize |-> Whole(1),
       packageUnit |-> "kg", packagePrice |-> Dec(12, 1)],
      [id |-> "9", name |-> "Butter", packageSize |-> Whole(1),
       packageUnit |-> "kg", packagePrice |-> Whole(8)],
      [id |-> "10", name |-> "Seeds (sesame/poppy)",
       packageSize |-> Whole(1), packageUnit |-> "kg",
       packagePrice |-> Whole(12)],
      [id |-> "11", name |-> "Nuts (walnuts)", packageSize |-> Whole(1),
       packageUnit |-> "kg", packagePrice |-> Whole(15)],
      [id |-> "12", name |-> "Dried fruits (raisins)",
       packageSize |-> Whole(1), packageUnit |-> "kg",
       packagePrice |-> Whole(10)],
      [id |-> "13", name |-> "Chocolate chips", packageSize |-> Whole(1),
       packageUnit |-> "kg", packagePrice |-> Whole(18)]>>

\* the working recipe when nothing was saved under 'bakingCostCalculator'
DefaultRecipe ==
    [recipeName |-> "",
     ingredients |-> <<>>,
     preheatTime |-> Whole(0),
     bakeTime |-> Whole(0),
     bakeTemp |-> Whole(0),
     mixerTime |-> Whole(0),
     laborTime |-> Whole(0),
     laborRate |-> Whole(20),
     packagingCost |-> Whole(0),
     yieldQty |-> Whole(1),
     yieldUnit |-> "unit",
     gasRate |-> Dec(26, 1),
     electricRate |-> Dec(18, 2),
     stovetopProcesses |-> <<>>]

\* the names of the working recipe's state cells
RecipeInputs == DOMAIN DefaultRecipe

\* a recipe a user entered in an earlier session
SampleRecipe ==
    [recipeName |-> "Bread",
     ingredients |->
        <<[name |-> "Bread Flour", quantity |-> Whole(500), unit |-> "g",
           packageSize |-> Whole(2268), packageUnit |-> "g",
           packagePrice |-> Whole(10)],
          [name |-> "Milk", quantity |-> Whole(1), unit |-> "cup",
           packageSize |-> Whole(0), packageUnit |-> "ml",
           packagePrice |-> Whole(3)]>>,
     preheatTime |-> Whole(15),
     bakeTime |-> Whole(45),
     bakeTemp |-> Whole(425),
     mixerTime |-> Whole(20),
     laborTime |-> Whole(30),
     laborRate |-> Whole(20),
     packagingCost |-> Dec(2, 1),
     yieldQty |-> Whole(12),
     yieldUnit |-> "roll",
     gasRate |-> Dec(26, 1),
     electricRate |-> Dec(17, 2),
     stovetopProcesses |->
        <<[id |-> "1700000000001", name |-> "Syrup", stoveType |-> "gas",
           burnerBTU |-> Whole(12000), burnerWattage |-> Whole(1000),
           powerLevel |-> Whole(70), duration |-> Whole(10)],
          [id |-> "1700000000002", name |-> "Glaze",
           stoveType |-> "induction",
           burnerBTU |-> Undefined, burnerWattage |-> Undefined,
           powerLevel |-> Whole(70), duration |-> Whole(5)]>>]

\* the recipeData object with the total without labor as its totalCost
recipeDataWithoutLabor(r, b, savedAt) ==
    [f \in RecipeInputs |-> r[f]] @@
    [savedAt |-> savedAt,
     totalCost |-> b.grandTotalWithoutLabor,
     costPerUnit |-> b.costPerUnit,
     costPerUnitWithoutLabor |-> b.costPerUnitWithoutLabor]

\* the recipeData object of saveRecipeToCatalog
recipeData(r, b, savedAt) ==
    [f \in RecipeInputs |-> r[f]] @@
    [savedAt |-> savedAt,
     totalCost |-> b.grandTotal,
     costPerUnit |-> b.costPerUnit,
     costPerUnitWithoutLabor |-> b.costPerUnitWithoutLabor]

\* JSON.parse(JSON.stringify(entry)) of a catalog entry
JSONIngredient(ing) ==
    [ing EXCEPT !.quantity = JSONNumber(@),
                !.packageSize = JSONNumber(@),
                !.packagePrice = JSONNumber(@)]

JSONProcess(p) ==
    [p EXCEPT !.burnerBTU = JSONNumber(@),
              !.burnerWattage = JSONNumber(@),
              !.powerLevel = JSONNumber(@),
              !.duration = JSONNumber(@)]

JSONRecipe(e) ==
    [f \in DOMAIN e |->
        CASE f = "ingredients" ->
                [i \in 1..Len(e[f]) |-> JSONIngredient(e[f][i])]
          [] f = "stovetopProcesses" ->
                [i \in 1..Len(e[f]) |-> JSONProcess(e[f][i])]
          [] f \in {"id", "recipeName", "yieldUnit", "savedAt"} -> e[f]
          [] OTHER -> JSONNumber(e[f])]

JSONCatalog(c) == [i \in 1..Len(c) |-> JSONRecipe(c[i])]

JSONSettings(s) ==
    [f \in DOMAIN s |->
        IF f \in {"packagingOptions", "stoveType"} THEN s[f]
        ELSE JSONNumber(s[f])]

\* the catalog entry saved from the sample recipe
SampleEntry ==
    JSONRecipe(recipeData(SampleRecipe,
                          Calculate(SampleRecipe, DefaultLocalSettings),
                          "2024-01-01T00:00:00.000Z")
               @@ [id |-> "1"])

\* a second entry of the catalog, saved before recipes had stovetop
\* processes: one hour of labor and nothing else
RollsEntry ==
    [f \in RecipeInputs \ {"stovetopProcesses"} |->
        IF f = "recipeName" THEN "Rolls"
        ELSE IF f = "laborTime" THEN Whole(60)
        ELSE DefaultRecipe[f]]
    @@ [id |-> "2", savedAt |-> "2024-01-02T00:00:00.000Z",
        totalCost |-> Whole(20), costPerUnit |-> Whole(20),
        costPerUnitWithoutLabor |-> Whole(0)]

\* the catalogs found at start-up
StoredCatalogs == {<<SampleEntry, RollsEntry>>}

\* the Settings stored by a version that had no stovetop fields yet
StoredSettings ==
    [laborRate |-> Whole(25),
     gasRate |-> Dec(26, 1),
     electricRate |-> Dec(18, 2),
     packagingOptions |->
        <<[id |-> "2", name |-> "Bread bag", cost |-> Dec(2, 1)]>>]

defaultRecipes ==
    <<[id |-> "1",
       recipeName |-> "French-Style Country Bread",
       ingredients |->
          <<[name |-> "Flour", quantity |-> Whole(645), unit |-> "g",
             packageSize |-> Whole(1), packageUnit |-> "kg",
             packagePrice |-> Dec(25, 1)],
            [name |-> "Water", quantity |-> Whole(454), unit |-> "g",
             packageSize |-> Whole(1), packageUnit |-> "L",
             packagePrice |-> Dec(1, 1)],
            [name |-> "Salt", quantity |-> Whole(2), unit |-> "tsp",
             packageSize |-> Whole(1), packageUnit |-> "kg",
             packagePrice |-> Whole(1)],
            [name |-> "Yeast", quantity |-> Whole(1), unit |-> "tsp",
             packageSize |-> Whole(100), packageUnit |-> "g",
             packagePrice |-> Whole(2)],
            [name |-> "Sugar", quantity |-> Whole(14), unit |-> "g",
             packageSize |-> Whole(1), packageUnit |-> "kg",
             packagePrice |-> Dec(12, 1)],
            [name |-> "Nuts (walnuts)", quantity |-> Whole(20), unit |-> "g",
             packageSize |-> Whole(1), packageUnit |-> "kg",
             packagePrice |-> Whole(15)],
            [name |-> "Seeds (sesame/poppy)", quantity |-> Whole(20),
             unit |-> "g", packageSize |-> Whole(1), packageUnit |-> "kg",
             packagePrice |-> Whole(12)]>>,
       preheatTime |-> Whole(30),
       bakeTime |-> Whole(30),
       bakeTemp |-> Whole(425),
       mixerTime |-> Whole(15),
       laborTime |-> Whole(30),
       laborRate |-> Whole(20),
       packagingCost |-> Dec(2, 1),
       yieldQty |-> Whole(1),
       yieldUnit |-> "loaf",
       gasRate |-> Dec(26, 1),
       electricRate |-> Dec(18, 2),
       savedAt |-> "2024-01-01T00:00:00.000Z",
       totalCost |-> Dec(1348, 2),
       costPerUnit |-> Dec(1348, 2)]>>

\* the mode of a visitor who is always taken as signed in
alwaysFirestore == TRUE

\* const isUsingFirestore = !!user
isUsingFirestore == user

\* const catalog = isUsingFirestore ? firestoreCatalog.data : localCatalog
catalog == IF isUsingFirestore THEN firestoreCatalog ELSE localCatalog

\* const ingredientDB = isUsingFirestore ? ... : localIngredientDB
ingredientDB ==
    IF isUsingFirestore THEN firestoreIngredientDB ELSE localIngredientDB

\* const settings = isUsingFirestore ? firestoreSettings.data : localSettings
settings == IF isUsingFirestore THEN firestoreSettings ELSE localSettings

\* the figures the current render computes from the state (lines 719-828)
breakdown == Calculate(recipe, settings)

\* Date.now().toString(): a millisecond clock that advances with every
\* handler
DateNowString == "17000000000" \o NatToString(10 + edits)

\* localStorage.getItem(key): no item, or the item holding a value
NoItem == <<>>

Item(value) == <<value>>

\* the initial list that takes any stored list, the empty one included
storedIfPresent(saved, default) ==
    IF saved # NoItem THEN saved[1] ELSE default

\* useState(() => { const saved = localStorage.getItem(key) ... })
StoredOrDefault(saved, default) ==
    IF saved # NoItem /\ Len(saved[1]) > 0 THEN saved[1] ELSE default

\* useState<Settings>(() => { ... parsed.laborRate ?? 20, ... })
InitialLocalSettings(saved) ==
    IF saved = NoItem THEN DefaultLocalSettings
    ELSE [f \in DOMAIN DefaultLocalSettings |->
            IF f \notin DOMAIN saved[1] THEN DefaultLocalSettings[f]
            ELSE IF f \in {"packagingOptions", "stoveType"} THEN saved[1][f]
                 ELSE Coalesce(saved[1][f], DefaultLocalSettings[f])]

\* the snapshot data alone, without the defaults
snapshotDataOnly(defaultValue, data) == data

\* { ...defaultValue, ...snapshot.data() }
MergeDefaults(defaultValue, data) ==
    [f \in DOMAIN defaultValue \cup DOMAIN data |->
        IF f \in DOMAIN data THEN data[f] ELSE defaultValue[f]]

\* the state after the first render, for a visitor who is signed in (u) or
\* not, with the given stored catalog and stored Settings; a signed-in
\* visitor has the same catalog and Settings in Firestore
AppStart(u, stored, storedSettings) ==
    /\ user = u
    /\ recipe = DefaultRecipe
    /\ localStorage = [recipeCatalog |-> stored,
                       ingredientDatabase |-> NoItem,
                       settings |-> storedSettings]
    /\ localCatalog = StoredOrDefault(stored, defaultRecipes)
    /\ localIngredientDB = StoredOrDefault(NoItem, defaultIngredients)
    /\ localSettings = InitialLocalSettings(storedSettings)
    /\ recipesCollection = IF u /\ stored # NoItem THEN stored[1] ELSE <<>>
    /\ ingredientsCollection = <<>>
    /\ settingsDoc = IF u THEN storedSettings ELSE NoItem
    /\ awaited = <<>>
    /\ firestoreCatalog = <<>>
    /\ firestoreIngredientDB = <<>>
    /\ firestoreSettings = DefaultFirestoreSettings
    /\ requests = <<>>
    /\ showSettings = FALSE
    /\ handler = ""
    /\ alert = ""
    /\ edits = 0

(***************************************************************************)
(* The state machine: a caller invokes convertUnits, converts the result   *)
(* back, or asks guessIngredientDensity alone.                             *)
(***************************************************************************)
NoValue == Undefined

\* no conversion is in progress
ConvertIdle ==
    /\ pc = "idle"
    /\ quantity = NoValue
    /\ fromUnit = ""
    /\ toUnit = ""
    /\ ingredientName = ""
    /\ branch = ""
    /\ density = NoValue
    /\ result = NoValue
    /\ back = NoValue

ConvertInit ==
    /\ ConvertIdle
    /\ AppStart(FALSE, NoItem, NoItem)

\* convertUnits(q, f, t, n)
Convert ==
    /\ pc = "idle"
    /\ \E q \in Quantities, f \in UnitStrings, t \in UnitStrings,
          n \in IngredientNames :
          /\ quantity' = q
          /\ fromUnit' = f
          /\ toUnit' = t
          /\ ingredientName' = n
          /\ branch' = convertBranch(normalizeUnit(f), normalizeUnit(t), n)
          /\ density' = guessIngredientDensity(n)
          /\ result' = convertUnits(q, f, t, n)
    /\ back' = NoValue
    /\ pc' = "converted"
    /\ UNCHANGED appVars

\* convertUnits(result, toUnit, fromUnit, ingredientName)
ConvertBack ==
    /\ pc = "converted"
    /\ back' = convertUnits(result, toUnit, fromUnit, ingredientName)
    /\ pc' = "back"
    /\ UNCHANGED <<quantity, fromUnit, toUnit, ingredientName, branch,
                   density, result>>
    /\ UNCHANGED appVars

\* guessIngredientDensity(n)
GuessDensity ==
    /\ pc = "idle"
    /\ \E n \in DensityNames :
          /\ ingredientName' = n
          /\ density' = guessIngredientDensity(n)
    /\ pc' = "guessed"
    /\ UNCHANGED <<quantity, fromUnit, toUnit, branch, result, back>>
    /\ UNCHANGED appVars

\* the caller is done with the values
Return ==
    /\ pc \in {"converted", "back", "guessed"}
    /\ pc' = "idle"
    /\ quantity' = NoValue
    /\ fromUnit' = ""
    /\ toUnit' = ""
    /\ ingredientName' = ""
    /\ branch' = ""
    /\ density' = NoValue
    /\ result' = NoValue
    /\ back' = NoValue
    /\ UNCHANGED appVars

ConvertNext == Convert \/ ConvertBack \/ GuessDensity \/ Return

SpecConvert == ConvertInit /\ [][ConvertNext]_vars

(***************************************************************************)
(* The application's handlers.  Every handler ends with a render, which    *)
(* recomputes the breakdown from the new state.  The clock advances with   *)
(* every handler.                                                          *)
(***************************************************************************)
MaxEdits == 2

\* what the visitor types into the recipe's own inputs
RecipeFieldInputs ==
    {<<"recipeName", "  ">>, <<"recipeName", "Rolls">>,
     <<"preheatTime", Whole(0)>>, <<"bakeTemp", Whole(350)>>,
     <<"mixerTime", Whole(0)>>, <<"laborTime", Whole(60)>>,
     <<"yieldQty", Whole(0)>>, <<"yieldQty", Whole(-1)>>,
     <<"gasRate", Dec(15, 1)>>}

\* what the visitor types into an ingredient line
IngredientInputs ==
    {<<"name", "Honey">>, <<"quantity", Whole(250)>>,
     <<"unit", "constructor">>, <<"unit", " Grams">>,
     <<"packageSize", Whole(0)>>, <<"packageSize", Whole(-1)>>,
     <<"packagePrice", Whole(4)>>}

\* the names the visitor picks from the datalist of the ingredient database
IngredientPicks == {"Flour"}

\* what the visitor enters for a stovetop process
ProcessInputs ==
    {<<"stoveType", "electric">>, <<"stoveType", "induction">>,
     <<"stoveType", "gas">>, <<"burnerBTU", Undefined>>,
     <<"burnerWattage", Whole(2000)>>, <<"duration", Whole(0)>>}

\* what the visitor enters in the Settings panel
SettingsInputs ==
    {<<"gasBurnerEfficiency", Whole(0)>>,
     <<"gasBurnerEfficiency", Dec(5, 1)>>,
     <<"inductionBurnerEfficiency", Whole(0)>>,
     <<"gasBurnerBTU", Whole(9000)>>,
     <<"inductionBurnerWattage", Whole(2000)>>,
     <<"stoveType", "induction">>, <<"laborRate", Whole(25)>>}

\* handler h has run
Handled(h) ==
    /\ handler' = h
    /\ edits' = edits + 1

\* a handler that touches the working recipe only
RecipeOnly ==
    UNCHANGED <<user, localStorage, localCatalog, localIngredientDB,
                localSettings, recipesCollection, firestoreCatalog,
                firestoreIngredientDB, firestoreSettings, requests,
                showSettings, syncVars, convertVars>>

\* setRecipeName, setPreheatTime, ..., setGasRate from the inputs
SetRecipeField ==
    /\ edits < MaxEdits
    /\ \E in \in RecipeFieldInputs :
          recipe' = [recipe EXCEPT ![in[1]] = in[2]]
    /\ alert' = ""
    /\ RecipeOnly
    /\ Handled("setRecipeField")

\* addIngredient()
addIngredient ==
    /\ edits < MaxEdits
    /\ recipe' = [recipe EXCEPT !.ingredients =
            Append(@, [name |-> "", quantity |-> Whole(0), unit |-> "g",
                       packageSize |-> Whole(0), packageUnit |-> "g",
                       packagePrice |-> Whole(0)])]
    /\ alert' = ""
    /\ RecipeOnly
    /\ Handled("addIngredient")

\* updateIngredient(index, field, value); a name found in the ingredient
\* database is handled by selectIngredientFromDB
updateIngredient ==
    /\ edits < MaxEdits
    /\ \E index \in 1..Len(recipe.ingredients), in \in IngredientInputs :
          /\ in[1] = "name" =>
                \A k \in 1..Len(ingredientDB) : ingredientDB[k].name # in[2]
          /\ recipe' = [recipe EXCEPT !.ingredients[index][in[1]] = in[2]]
    /\ alert' = ""
    /\ RecipeOnly
    /\ Handled("updateIngredient")

\* removeIngredient(index)
removeIngredient ==
    /\ edits < MaxEdits
    /\ \E index \in 1..Len(recipe.ingredients) :
          recipe' = [recipe EXCEPT !.ingredients =
                SubSeq(@, 1, index - 1) \o SubSeq(@, index + 1, Len(@))]
    /\ alert' = ""
    /\ RecipeOnly
    /\ Handled("removeIngredient")

\* selectIngredientFromDB(index, dbIngredient), called by the name input
\* with the first database entry of that name
selectIngredientFromDB ==
    /\ edits < MaxEdits
    /\ \E index \in 1..Len(recipe.ingredients), name \in IngredientPicks :
          /\ \E k \in 1..Len(ingredientDB) : ingredientDB[k].name = name
          /\ LET k == CHOOSE k \in 1..Len(ingredientDB) :
                        /\ ingredientDB[k].name = name
                        /\ \A j \in 1..(k - 1) : ingredientDB[j].name # name
                 dbIngredient == ingredientDB[k]
             IN  recipe' = [recipe EXCEPT !.ingredients[index] =
                    [@ EXCEPT !.name = dbIngredient.name,
                              !.packageSize = dbIngredient.packageSize,
                              !.packageUnit = dbIngredient.packageUnit,
                              !.packagePrice = dbIngredient.packagePrice,
                              !.unit = "g"]]
    /\ alert' = ""
    /\ RecipeOnly
    /\ Handled("selectIngredientFromDB")

\* addStovetopProcess()
addStovetopProcess ==
    /\ edits < MaxEdits
    /\ recipe' = [recipe EXCEPT !.stovetopProcesses =
            Append(@, [id |-> DateNowString, name |-> "",
                       stoveType |-> settings.stoveType,
                       burnerBTU |-> Undefined, burnerWattage |-> Undefined,
                       powerLevel |-> Whole(70), duration |-> Whole(0)])]
    /\ alert' = ""
    /\ RecipeOnly
    /\ Handled("addStovetopProcess")

\* updateStovetopProcess(index, field, value)
updateStovetopProcess ==
    /\ edits < MaxEdits
    /\ \E index \in 1..Len(recipe.stovetopProcesses), in \in ProcessInputs :
          recipe' = [recipe EXCEPT
                        !.stovetopProcesses[index][in[1]] = in[2]]
    /\ alert' = ""
    /\ RecipeOnly
    /\ Handled("updateStovetopProcess")

\* removeStovetopProcess(index)
removeStovetopProcess ==
    /\ edits < MaxEdits
    /\ \E index \in 1..Len(recipe.stovetopProcesses) :
          recipe' = [recipe EXCEPT !.stovetopProcesses =
                SubSeq(@, 1, index - 1) \o SubSeq(@, index + 1, Len(@))]
    /\ alert' = ""
    /\ RecipeOnly
    /\ Handled("removeStovetopProcess")

\* the loaded recipe at the rates of the Settings instead of the entry's
loadedRecipeAtSettingsRates(entry) ==
    [f \in RecipeInputs |->
        IF f \in {"laborRate", "gasRate", "electricRate"} THEN settings[f]
        ELSE IF f \in DOMAIN entry THEN entry[f]
        ELSE IF f = "stovetopProcesses" THEN <<>>
        ELSE Undefined]

\* setRecipeName(recipe.recipeName) ... setStovetopProcesses(
\* recipe.stovetopProcesses || []): the input state after loadRecipe
loadedRecipe(entry) ==
    [f \in RecipeInputs |->
        IF f \in DOMAIN entry THEN entry[f]
        ELSE IF f = "stovetopProcesses" THEN <<>>
        ELSE Undefined]

\* the entries the visitor loads: every entry but the built-in recipes,
\* whose figures have denominators beyond the integers of the checker
LoadPicks ==
    {i \in 1..Len(catalog) :
        \A k \in 1..Len(defaultRecipes) : catalog[i] # defaultRecipes[k]}

\* the alerts of a save that went through
SavedAlerts == {"Recipe saved to catalog!", "Recipe updated in catalog!"}

\* loadRecipe(recipe) for an entry of the catalog; a load that follows a
\* save is explored beyond the bound on the edits
loadRecipe ==
    /\ edits < MaxEdits \/ alert \in SavedAlerts
    /\ \E i \in LoadPicks : recipe' = loadedRecipe(catalog[i])
    /\ alert' = "Recipe loaded!"
    /\ RecipeOnly
    /\ Handled("loadRecipe")

\* the cleared recipe at the built-in rates instead of those of the Settings
clearedRecipeBuiltInRates(s) ==
    [DefaultRecipe EXCEPT !.yieldQty = Whole(0), !.yieldUnit = ""]

\* the values startNewRecipe sets: setRecipeName(''), setIngredients([]),
\* ..., setLaborRate(settings.laborRate), ..., setStovetopProcesses([])
clearedRecipe(s) ==
    [recipeName |-> "",
     ingredients |-> <<>>,
     preheatTime |-> Whole(0),
     bakeTime |-> Whole(0),
     bakeTemp |-> Whole(0),
     mixerTime |-> Whole(0),
     laborTime |-> Whole(0),
     laborRate |-> s.laborRate,
     packagingCost |-> Whole(0),
     yieldQty |-> Whole(0),
     yieldUnit |-> "",
     gasRate |-> s.gasRate,
     electricRate |-> s.electricRate,
     stovetopProcesses |-> <<>>]

\* startNewRecipe(), confirmed or declined
startNewRecipe ==
    /\ edits < MaxEdits
    /\ \E confirmed \in BOOLEAN :
          IF confirmed
          THEN /\ recipe' = clearedRecipe(settings)
               /\ alert' = "Started new recipe!"
          ELSE /\ recipe' = recipe
               /\ alert' = ""
    /\ RecipeOnly
    /\ Handled("startNewRecipe")

\* add, update, remove of useFirestoreCollection(path): the collection
\* the call reads and the one it leaves as docs
Collection(path) ==
    IF path = "recipes" THEN recipesCollection ELSE ingredientsCollection

SetCollection(path, docs) ==
    IF path = "recipes"
    THEN recipesCollection' = docs /\ UNCHANGED ingredientsCollection
    ELSE ingredientsCollection' = docs /\ UNCHANGED recipesCollection

\* the id Firestore gives a document added by the request now issued
AutoId == "auto" \o NatToString(Len(requests) + 1)

\* const add = async (item) => { if (!user) return; await addDoc(...) }
add(path, item) ==
    IF ~user
    THEN UNCHANGED <<recipesCollection, ingredientsCollection, requests>>
    ELSE /\ requests' = Append(requests,
                [op |-> "addDoc", path |-> path, data |-> item])
         /\ SetCollection(path,
                Append(Collection(path), item @@ [id |-> AutoId]))

\* the collection holds a document with the id; updateDoc of any other id
\* is rejected
DocExists(path, id) ==
    \E i \in 1..Len(Collection(path)) : Collection(path)[i].id = id

\* updateDoc(docRef, updates)
UpdateDoc(docs, id, updates) ==
    [i \in 1..Len(docs) |->
        IF docs[i].id = id
        THEN updates @@ docs[i]
        ELSE docs[i]]

\* const update = async (id, updates) => { if (!user) return; ... }
update(path, id, updates) ==
    IF ~user
    THEN UNCHANGED <<recipesCollection, ingredientsCollection, requests>>
    ELSE /\ requests' = Append(requests,
                [op |-> "updateDoc", path |-> path, id |-> id,
                 data |-> updates])
         /\ SetCollection(path, UpdateDoc(Collection(path), id, updates))

\* the documents of a collection but the one with the id
DeleteDoc(docs, id) == SelectSeq(docs, LAMBDA d : d.id # id)

\* const remove = async (id) => { if (!user) return; await deleteDoc(...) }
remove(path, id) ==
    IF ~user
    THEN UNCHANGED <<recipesCollection, ingredientsCollection, requests>>
    ELSE /\ requests' = Append(requests,
                [op |-> "deleteDoc", path |-> path, id |-> id])
         /\ SetCollection(path, DeleteDoc(Collection(path), id))

\* the documents of a collection with the document of the id replaced by
\* the item, or with the item as one more document
SetDoc(docs, id, item) ==
    IF \E i \in 1..Len(docs) : docs[i].id = id
    THEN [i \in 1..Len(docs) |->
            IF docs[i].id = id THEN [id |-> id] @@ item ELSE docs[i]]
    ELSE Append(docs, [id |-> id] @@ item)

\* const set = async (id, item) => { if (!user) return; await setDoc(...) }
set(path, id, item) ==
    IF ~user
    THEN UNCHANGED <<recipesCollection, ingredientsCollection, requests>>
    ELSE /\ requests' = Append(requests,
                [op |-> "setDoc", path |-> path, id |-> id, data |-> item])
         /\ SetCollection(path, SetDoc(Collection(path), id, item))

\* const update = async (updates) => { if (!user) return;
\*   const newData = { ...data, ...updates }; await setDoc(docRef, newData);
\* up to the await
docUpdate(updates) ==
    IF ~user
    THEN UNCHANGED <<settingsDoc, awaited, requests>>
    ELSE /\ requests' = Append(requests,
                [op |-> "setDoc", path |-> "settings/data",
                 data |-> updates @@ firestoreSettings])
         /\ settingsDoc' = Item(updates @@ firestoreSettings)
         /\ awaited' = Append(awaited, updates @@ firestoreSettings)

\* updateSettings(field, value) of the application, with the updates
\* [field |-> value] as a record
UpdateSettings(updates) ==
    IF isUsingFirestore
    THEN /\ docUpdate(updates)
         /\ UNCHANGED <<localSettings, localStorage>>
    ELSE /\ localSettings' = updates @@ settings
         /\ localStorage' =
                [localStorage EXCEPT
                    !.settings = Item(JSONSettings(updates @@ settings))]
         /\ UNCHANGED <<settingsDoc, awaited, requests>>

\* a handler that goes through updateSettings only
SettingsOnly ==
    UNCHANGED <<user, recipe, localCatalog, localIngredientDB,
                recipesCollection, ingredientsCollection, firestoreCatalog,
                firestoreIngredientDB, firestoreSettings, showSettings,
                convertVars>>

\* onChange of an input of the Settings panel
updateSettings ==
    /\ edits < MaxEdits
    /\ \E in \in SettingsInputs :
          UpdateSettings([f \in {in[1]} |-> in[2]])
    /\ alert' = ""
    /\ SettingsOnly
    /\ Handled("updateSettings")

\* addPackagingOption()
addPackagingOption ==
    /\ edits < MaxEdits
    /\ UpdateSettings(
          [packagingOptions |->
              Append(settings.packagingOptions,
                     [id |-> DateNowString, name |-> "", cost |-> Whole(0)])])
    /\ alert' = ""
    /\ SettingsOnly
    /\ Handled("addPackagingOption")

\* what the visitor types into a packaging option
PackagingInputs == {<<"name", "Box">>, <<"cost", Dec(5, 1)>>}

\* updatePackagingOption(id, field, value)
updatePackagingOption ==
    /\ edits < MaxEdits
    /\ \E k \in 1..Len(settings.packagingOptions), in \in PackagingInputs :
          UpdateSettings(
             [packagingOptions |->
                 [i \in 1..Len(settings.packagingOptions) |->
                     IF settings.packagingOptions[i].id =
                            settings.packagingOptions[k].id
                     THEN [settings.packagingOptions[i] EXCEPT
                              ![in[1]] = in[2]]
                     ELSE settings.packagingOptions[i]]])
    /\ alert' = ""
    /\ SettingsOnly
    /\ Handled("updatePackagingOption")

\* deletePackagingOption(id), confirmed or declined
deletePackagingOption ==
    /\ edits < MaxEdits
    /\ \E k \in 1..Len(settings.packagingOptions), confirmed \in BOOLEAN :
          IF confirmed
          THEN /\ UpdateSettings(
                     [packagingOptions |->
                         SelectSeq(settings.packagingOptions,
                                   LAMBDA opt :
                                      opt.id # settings.packagingOptions[k].id)])
               /\ alert' = "Packaging option deleted!"
          ELSE /\ alert' = ""
               /\ UNCHANGED <<localSettings, localStorage, settingsDoc,
                              awaited, requests>>
    /\ SettingsOnly
    /\ Handled("deletePackagingOption")

\* update of useFirestoreDoc after the await: setData(newData)
docUpdateResolved ==
    /\ awaited # <<>>
    /\ firestoreSettings' = Head(awaited)
    /\ awaited' = Tail(awaited)
    /\ handler' = "docUpdateResolved"
    /\ UNCHANGED <<user, recipe, localStorage, localCatalog,
                   localIngredientDB, localSettings, recipesCollection,
                   ingredientsCollection, settingsDoc, firestoreCatalog,
                   firestoreIngredientDB, requests, showSettings, alert,
                   edits, convertVars>>

\* the callback of onSnapshot on the document settings/data
onDocSnapshot ==
    /\ user
    /\ IF settingsDoc # NoItem
       THEN /\ firestoreSettings #
                  MergeDefaults(DefaultFirestoreSettings, settingsDoc[1])
            /\ firestoreSettings' =
                  MergeDefaults(DefaultFirestoreSettings, settingsDoc[1])
            /\ UNCHANGED <<settingsDoc, requests>>
       ELSE /\ requests' = Append(requests,
                    [op |-> "setDoc", path |-> "settings/data",
                     data |-> DefaultFirestoreSettings])
            /\ settingsDoc' = Item(DefaultFirestoreSettings)
            /\ firestoreSettings' = DefaultFirestoreSettings
    /\ handler' = "onDocSnapshot"
    /\ UNCHANGED <<user, recipe, localStorage, localCatalog,
                   localIngredientDB, localSettings, recipesCollection,
                   ingredientsCollection, awaited, firestoreCatalog,
                   firestoreIngredientDB, showSettings, alert, edits,
                   convertVars>>

\* catalog.find(r => r.recipeName === recipeName): its index, 0 if none
FindByName(c, name) ==
    IF \E i \in 1..Len(c) : c[i].recipeName = name
    THEN CHOOSE i \in 1..Len(c) :
            /\ c[i].recipeName = name
            /\ \A j \in 1..(i - 1) : c[j].recipeName # name
    ELSE 0

\* const newRecipe = { ...recipeData, id: existing?.id || Date.now() }
NewRecipe(data, found) ==
    data @@ [id |-> IF found > 0 /\ catalog[found].id # ""
                    THEN catalog[found].id
                    ELSE DateNowString]

\* the new catalog that always gets the recipe as one more entry
updatedCatalogAppending(newRecipe, found) == Append(catalog, newRecipe)

\* catalog.map(r => r.id === existing.id ? newRecipe : r), or
\* [...catalog, newRecipe]
UpdatedCatalog(newRecipe, found) ==
    IF found > 0
    THEN [i \in 1..Len(catalog) |->
            IF catalog[i].id = catalog[found].id THEN newRecipe
            ELSE catalog[i]]
    ELSE Append(catalog, newRecipe)

\* the localStorage branch of saveRecipeToCatalog
SaveLocally(updatedCatalog, found) ==
    /\ localCatalog' = updatedCatalog
    /\ localStorage' = [localStorage EXCEPT
                            !.recipeCatalog = Item(JSONCatalog(updatedCatalog))]
    /\ alert' = IF found > 0 THEN "Recipe updated in catalog!"
                ELSE "Recipe saved to catalog!"
    /\ UNCHANGED <<recipesCollection, ingredientsCollection, requests>>

\* the Firestore branch of saveRecipeToCatalog
SaveToFirestore(data, found) ==
    /\ IF found > 0
       THEN /\ update("recipes", catalog[found].id, data)
            /\ alert' = IF DocExists("recipes", catalog[found].id)
                        THEN "Recipe updated in catalog!"
                        ELSE "Failed to save recipe. Please try again."
       ELSE /\ add("recipes", data)
            /\ alert' = "Recipe saved to catalog!"
    /\ UNCHANGED <<localCatalog, localStorage>>

\* saveRecipeToCatalog past the check of the name
Save(data, found) ==
    IF isUsingFirestore
    THEN SaveToFirestore(data, found)
    ELSE SaveLocally(UpdatedCatalog(NewRecipe(data, found), found), found)

\* the check of the name that looks for the empty string only
emptyName(recipeName) == recipeName = ""

\* !recipeName.trim()
blankName(recipeName) == trim(recipeName) = ""

\* saveRecipeToCatalog(grandTotal, costPerUnit, costPerUnitWithoutLabor)
saveRecipeToCatalog ==
    /\ edits < MaxEdits
    /\ IF blankName(recipe.recipeName)
       THEN /\ alert' = "Please enter a recipe name before saving!"
            /\ UNCHANGED <<localCatalog, localStorage, recipesCollection,
                           ingredientsCollection, requests>>
       ELSE Save(recipeData(recipe, breakdown, "saved at " \o DateNowString),
                 FindByName(catalog, recipe.recipeName))
    /\ UNCHANGED <<user, recipe, localIngredientDB, localSettings,
                   firestoreCatalog, firestoreIngredientDB,
                   firestoreSettings, settingsDoc, awaited, showSettings,
                   convertVars>>
    /\ Handled("saveRecipeToCatalog")

\* deleteRecipe(id) from the catalog panel, confirmed or declined
deleteRecipe ==
    /\ edits < MaxEdits
    /\ \E k \in 1..Len(catalog), confirmed \in BOOLEAN :
          IF ~confirmed
          THEN /\ alert' = ""
               /\ UNCHANGED <<localCatalog, localStorage, recipesCollection,
                              ingredientsCollection, requests>>
          ELSE /\ IF isUsingFirestore
                  THEN /\ remove("recipes", catalog[k].id)
                       /\ UNCHANGED <<localCatalog, localStorage>>
                  ELSE /\ localCatalog' = DeleteDoc(catalog, catalog[k].id)
                       /\ localStorage' =
                             [localStorage EXCEPT !.recipeCatalog =
                                 Item(JSONCatalog(
                                     DeleteDoc(catalog, catalog[k].id)))]
                       /\ UNCHANGED <<recipesCollection,
                                      ingredientsCollection, requests>>
               /\ alert' = "Recipe deleted!"
    /\ UNCHANGED <<user, recipe, localIngredientDB, localSettings,
                   firestoreCatalog, firestoreIngredientDB,
                   firestoreSettings, settingsDoc, awaited, showSettings,
                   convertVars>>
    /\ Handled("deleteRecipe")

\* JSON.parse(JSON.stringify(updated)) of the ingredient database
JSONIngredientDB(db) ==
    [i \in 1..Len(db) |->
        [db[i] EXCEPT !.packageSize = JSONNumber(@),
                      !.packagePrice = JSONNumber(@)]]

\* setLocalIngredientDB(updated); localStorage.setItem(...)
SetLocalIngredientDB(updated) ==
    /\ localIngredientDB' = updated
    /\ localStorage' = [localStorage EXCEPT
                           !.ingredientDatabase = Item(JSONIngredientDB(updated))]
    /\ UNCHANGED <<recipesCollection, ingredientsCollection, requests>>

\* a handler of the ingredient database panel
IngredientDBOnly ==
    UNCHANGED <<user, recipe, localCatalog, localSettings, firestoreCatalog,
                firestoreIngredientDB, firestoreSettings, settingsDoc,
                awaited, showSettings, convertVars>>

\* addIngredientToDB()
addIngredientToDB ==
    /\ edits < MaxEdits
    /\ IF isUsingFirestore
       THEN /\ add("ingredients",
                   [name |-> "", packageSize |-> Whole(0),
                    packageUnit |-> "g", packagePrice |-> Whole(0)])
            /\ UNCHANGED <<localIngredientDB, localStorage>>
       ELSE SetLocalIngredientDB(
               Append(ingredientDB,
                      [name |-> "", packageSize |-> Whole(0),
                       packageUnit |-> "g", packagePrice |-> Whole(0),
                       id |-> DateNowString]))
    /\ alert' = ""
    /\ IngredientDBOnly
    /\ Handled("addIngredientToDB")

\* what the visitor types into an entry of the ingredient database
IngredientDBInputs == {<<"name", "Honey">>, <<"packagePrice", Whole(3)>>}

\* the entries of the ingredient database the visitor edits or deletes:
\* the first and the last
IngredientDBPicks == {k \in 1..Len(ingredientDB) : k \in {1, Len(ingredientDB)}}

\* updateIngredientInDB(id, field, value)
updateIngredientInDB ==
    /\ edits < MaxEdits
    /\ \E k \in IngredientDBPicks, in \in IngredientDBInputs :
          IF isUsingFirestore
          THEN /\ update("ingredients", ingredientDB[k].id,
                         [f \in {in[1]} |-> in[2]])
               /\ alert' = IF DocExists("ingredients", ingredientDB[k].id)
                           THEN ""
                           ELSE "Failed to update ingredient. Please try again."
               /\ UNCHANGED <<localIngredientDB, localStorage>>
          ELSE /\ SetLocalIngredientDB(
                     [i \in 1..Len(ingredientDB) |->
                         IF ingredientDB[i].id = ingredientDB[k].id
                         THEN [ingredientDB[i] EXCEPT ![in[1]] = in[2]]
                         ELSE ingredientDB[i]])
               /\ alert' = ""
    /\ IngredientDBOnly
    /\ Handled("updateIngredientInDB")

\* deleteIngredientFromDB(id), confirmed or declined
deleteIngredientFromDB ==
    /\ edits < MaxEdits
    /\ \E k \in IngredientDBPicks, confirmed \in BOOLEAN :
          IF ~confirmed
          THEN /\ alert' = ""
               /\ UNCHANGED <<localIngredientDB, localStorage,
                              recipesCollection, ingredientsCollection,
                              requests>>
          ELSE /\ IF isUsingFirestore
                  THEN /\ remove("ingredients", ingredientDB[k].id)
                       /\ UNCHANGED <<localIngredientDB, localStorage>>
                  ELSE SetLocalIngredientDB(
                          DeleteDoc(ingredientDB, ingredientDB[k].id))
               /\ alert' = "Ingredient deleted from database!"
    /\ IngredientDBOnly
    /\ Handled("deleteIngredientFromDB")

\* onClick={() => setShowSettings(!showSettings)}: a render with no change
\* of the recipe, the Settings or the stores
toggleSettings ==
    /\ edits < MaxEdits
    /\ showSettings' = ~showSettings
    /\ alert' = ""
    /\ UNCHANGED <<user, recipe, localStorage, localCatalog,
                   localIngredientDB, localSettings, recipesCollection,
                   firestoreCatalog, firestoreIngredientDB,
                   firestoreSettings, requests, syncVars, convertVars>>
    /\ Handled("toggleSettings")

\* the callback of onSnapshot on the recipes collection
onSnapshot ==
    /\ user
    /\ firestoreCatalog # recipesCollection
    /\ firestoreCatalog' = recipesCollection
    /\ handler' = "onSnapshot"
    /\ UNCHANGED <<user, recipe, localStorage, localCatalog,
                   localIngredientDB, localSettings, recipesCollection,
                   firestoreIngredientDB, firestoreSettings, requests,
                   showSettings, alert, edits, syncVars, convertVars>>

\* the callback of onSnapshot on the ingredients collection
onIngredientsSnapshot ==
    /\ user
    /\ firestoreIngredientDB # ingredientsCollection
    /\ firestoreIngredientDB' = ingredientsCollection
    /\ handler' = "onIngredientsSnapshot"
    /\ UNCHANGED <<user, recipe, localStorage, localCatalog,
                   localIngredientDB, localSettings, recipesCollection,
                   firestoreCatalog, firestoreSettings, requests,
                   showSettings, alert, edits, syncVars, convertVars>>

\* the page is loaded again: every useState initializer runs anew on what
\* localStorage holds, and the hooks start from their initial data
reload ==
    /\ edits < MaxEdits
    /\ recipe' = DefaultRecipe
    /\ localCatalog' = StoredOrDefault(localStorage.recipeCatalog,
                                       defaultRecipes)
    /\ localIngredientDB' = StoredOrDefault(localStorage.ingredientDatabase,
                                            defaultIngredients)
    /\ localSettings' = InitialLocalSettings(localStorage.settings)
    /\ firestoreCatalog' = <<>>
    /\ firestoreIngredientDB' = <<>>
    /\ firestoreSettings' = DefaultFirestoreSettings
    /\ awaited' = <<>>
    /\ showSettings' = FALSE
    /\ alert' = ""
    /\ UNCHANGED <<user, localStorage, recipesCollection,
                   ingredientsCollection, settingsDoc, requests,
                   convertVars>>
    /\ Handled("reload")

\* a first visit, or a visit that finds the catalog and the Settings of
\* an earlier one
AppInit ==
    /\ ConvertIdle
    /\ \E u \in BOOLEAN :
          \/ AppStart(u, NoItem, NoItem)
          \/ \E stored \in StoredCatalogs :
                AppStart(u, Item(stored), Item(StoredSettings))

AppNext ==
    \/ SetRecipeField
    \/ addIngredient
    \/ updateIngredient
    \/ removeIngredient
    \/ selectIngredientFromDB
    \/ addStovetopProcess
    \/ updateStovetopProcess
    \/ removeStovetopProcess
    \/ loadRecipe
    \/ startNewRecipe
    \/ updateSettings
    \/ addPackagingOption
    \/ updatePackagingOption
    \/ deletePackagingOption
    \/ saveRecipeToCatalog
    \/ deleteRecipe
    \/ addIngredientToDB
    \/ updateIngredientInDB
    \/ deleteIngredientFromDB
    \/ toggleSettings
    \/ reload
    \/ onSnapshot
    \/ onIngredientsSnapshot
    \/ onDocSnapshot
    \/ docUpdateResolved

SpecApp == AppInit /\ [][AppNext]_vars

(***************************************************************************)
(* Properties of the conversion service.                                   *)
(***************************************************************************)
WeightUnits == DOMAIN WEIGHT_CONVERSIONS

VolumeUnits == DOMAIN VOLUME_CONVERSIONS

\* convertUnits has returned for the arguments held in the state
Called == pc \in {"converted", "back"}

from == normalizeUnit(fromUnit)

to == normalizeUnit(toUnit)

\* the indexes of the density keys that occur in the lowercased name
MatchingKeys(name) ==
    {i \in DOMAIN INGREDIENT_DENSITIES :
        includes(toLowerCase(name), INGREDIENT_DENSITIES[i][1])}

\* one unit is a volume unit of the table, the other a weight unit of it
CrossPair ==
    \/ from \in VolumeUnits /\ to \in WeightUnits
    \/ from \in WeightUnits /\ to \in VolumeUnits

\* C1: when the two unit strings are equal after trim and lowercase,
\* convertUnits returns the quantity unchanged, whatever the quantity, the
\* ingredient name and the unit (in a table or not).
C1_SameUnitIdentity ==
    (Called /\ from = to) => result = quantity

C1_Witness ==
    /\ pc = "converted"
    /\ fromUnit = "xyz" /\ toUnit = " XYZ"
    /\ quantity = Num(5, 2)
    /\ result = Num(5, 2)

\* C2: two different units of the weight table convert by
\* quantity * factor(from) / factor(to) in the weight branch, two different
\* units of the volume table likewise in the volume branch, whatever the
\* ingredient name.
C2_SameCategory ==
    /\ (Called /\ from # to /\ from \in WeightUnits /\ to \in WeightUnits) =>
          /\ branch = "weight"
          /\ result = Div(Mul(quantity, WEIGHT_CONVERSIONS[from]),
                          WEIGHT_CONVERSIONS[to])
    /\ (Called /\ from # to /\ from \in VolumeUnits /\ to \in VolumeUnits) =>
          /\ branch = "volume"
          /\ result = Div(Mul(quantity, VOLUME_CONVERSIONS[from]),
                          VOLUME_CONVERSIONS[to])

C2_Witness ==
    /\ pc = "converted"
    /\ fromUnit = "Lb" /\ toUnit = "oz"
    /\ ingredientName = "Honey"
    /\ quantity = Num(1, 2)
    /\ result = Num(8, 1)

\* C3: with a density d found for the name, volume to weight gives
\* quantity * volFactor(from) * d / weightFactor(to) and weight to volume
\* gives quantity * weightFactor(from) / d / volFactor(to); one cup of
\* water is 236.588 g.
C3_CrossCategory ==
    /\ (Called /\ from \in VolumeUnits /\ to \in WeightUnits
           /\ MatchingKeys(ingredientName) # {}) =>
          result = Div(Mul(Mul(quantity, VOLUME_CONVERSIONS[from]), density),
                       WEIGHT_CONVERSIONS[to])
    /\ (Called /\ from \in WeightUnits /\ to \in VolumeUnits
           /\ MatchingKeys(ingredientName) # {}) =>
          result = Div(Div(Mul(quantity, WEIGHT_CONVERSIONS[from]), density),
                       VOLUME_CONVERSIONS[to])
    /\ (Called /\ quantity = Num(1, 1) /\ fromUnit = "cup" /\ toUnit = "g"
           /\ ingredientName = "water") =>
          result = Dec(236588, 3)
    /\ (Called /\ quantity = Num(1, 1) /\ fromUnit = "cup" /\ toUnit = "g"
           /\ ingredientName = "Bread Flour") =>
          result = Dec(124918464, 6)

C3_Witness ==
    /\ pc = "converted"
    /\ quantity = Num(1, 1) /\ fromUnit = "cup" /\ toUnit = "g"
    /\ ingredientName = "water"
    /\ branch = "volumeToWeight"
    /\ result = Dec(236588, 3)

\* C4: between a weight unit and a volume unit, when no density key occurs
\* in the (lowercased) ingredient name, the empty name included,
\* convertUnits returns the quantity unchanged.
C4_UnknownDensity ==
    (Called /\ CrossPair /\ MatchingKeys(ingredientName) = {}) =>
        result = quantity

C4_Witness ==
    /\ pc = "converted"
    /\ fromUnit = "Cups " /\ toUnit = "ct"
    /\ ingredientName = ""
    /\ quantity = Num(3, 1)
    /\ result = Num(3, 1)

\* C5: for two different normalized units of which at least one is in
\* neither table, convertUnits returns the quantity unchanged, for any unit
\* string whatsoever.
C5_UnresolvedIsNoOp ==
    (Called /\ from # to
        /\ (from \notin WeightUnits \cup VolumeUnits
               \/ to \notin WeightUnits \cup VolumeUnits)) =>
        result = quantity

\* C6: converting from weight unit a to weight unit b and back to a gives
\* the original quantity, for every quantity and name.
C6_WeightRoundTrip ==
    (pc = "back" /\ from \in WeightUnits /\ to \in WeightUnits) =>
        back = quantity

C6_Witness ==
    /\ pc = "back"
    /\ fromUnit = "oz" /\ toUnit = "ct"
    /\ quantity = Num(3, 2)
    /\ result # quantity
    /\ back = quantity

\* C7: with a density found for the name, converting between a volume unit
\* and a weight unit and back, starting from either, gives the original
\* quantity.
C7_CrossRoundTrip ==
    (pc = "back" /\ CrossPair /\ MatchingKeys(ingredientName) # {}) =>
        back = quantity

C7_Witness ==
    /\ pc = "back"
    /\ fromUnit = "tbsp" /\ toUnit = "oz"
    /\ ingredientName = "brown sugar"
    /\ quantity = Num(2, 1)
    /\ result # quantity
    /\ back = quantity

\* C8: for every finite quantity, every pair of unit strings and every
\* name, convertUnits returns a finite number.
C8_AlwaysFinite ==
    Called => (IsFinite(quantity) => IsFinite(result))

\* C9: guessIngredientDensity returns the density of the first key, in
\* insertion order, that occurs in the lowercased name, and null when none
\* occurs.
C9_FirstMatchingKey ==
    /\ (pc \in {"guessed", "converted", "back"}) =>
          LET m == MatchingKeys(ingredientName)
          IN  IF m = {} THEN density = Null
              ELSE \E i \in m :
                      /\ \A j \in m : i <= j
                      /\ density = INGREDIENT_DENSITIES[i][2]
    /\ (pc = "guessed" /\ ingredientName = "WATER") => density = Dec(10, 1)
    /\ (pc = "guessed" /\ ingredientName = "Unsalted Butter") =>
          density = Dec(911, 3)
    /\ (pc = "guessed" /\ ingredientName = "powdered sugar") =>
          density = Dec(845, 3)
    /\ (pc = "guessed" /\ ingredientName = "nutmeg") => density = Null

C9_Witness ==
    /\ pc = "guessed"
    /\ ingredientName = "Unsalted Butter"
    /\ Cardinality(MatchingKeys(ingredientName)) = 2
    /\ density = Dec(911, 3)

\* C10: the tables share no unit name, every normalized unit is, by the
\* tests convertUnits makes, in exactly one of the categories weight,
\* volume and unresolved, and at most one of the branch conditions holds
\* of a pair of different units.
C10_UnitsPartition ==
    Called =>
        /\ WeightUnits \cap VolumeUnits = {}
        /\ \A u \in {from, to} : ~(isWeight(u) /\ isVolume(u))
        /\ from # to =>
              /\ ~(bothWeight(from, to) /\ bothVolume(from, to))
              /\ ~(bothWeight(from, to) /\ crossCategory(from, to))
              /\ ~(bothVolume(from, to) /\ crossCategory(from, to))

(***************************************************************************)
(* Properties of the cost calculations and of the application.             *)
(***************************************************************************)
\* the ingredient lines of the working recipe
Lines == 1..Len(recipe.ingredients)

\* the stovetop processes of the working recipe
Processes == 1..Len(recipe.stovetopProcesses)

\* C11: each ingredient line costs convertUnits(quantity, unit, packageUnit,
\* name) * (packagePrice / packageSize), and a line whose package size is
\* zero or negative has unit price 0 and cost 0 whatever its quantity, units
\* and package price.
C11_LineCost ==
    LET b == breakdown
    IN  \A i \in Lines :
            LET ing == recipe.ingredients[i]
                entry == b.ingredientCosts[i]
            IN  IF GreaterThanZero(ing.packageSize)
                THEN entry.cost =
                        Mul(convertUnits(ing.quantity, ing.unit,
                                         ing.packageUnit, ing.name),
                            Div(ing.packagePrice, ing.packageSize))
                ELSE /\ entry.pricePerPackageUnit = Whole(0)
                     /\ entry.cost = Whole(0)

\* the sum of the costs of a list of breakdown entries
RECURSIVE CostSum(_)
CostSum(costs) ==
    IF costs = <<>> THEN Whole(0)
    ELSE Add(CostSum(SubSeq(costs, 1, Len(costs) - 1)),
             costs[Len(costs)].cost)

\* C12: the ingredient breakdown has exactly one entry per ingredient line,
\* in the order of the list (entry i carries line i's name, quantity and
\* unit), and the ingredient total is the sum of the entries' costs.
C12_BreakdownFollowsLines ==
    LET b == breakdown
    IN  /\ Len(b.ingredientCosts) = Len(recipe.ingredients)
        /\ \A i \in Lines :
              /\ b.ingredientCosts[i].name = recipe.ingredients[i].name
              /\ b.ingredientCosts[i].quantity = recipe.ingredients[i].quantity
              /\ b.ingredientCosts[i].unit = recipe.ingredients[i].unit
        /\ b.totalIngredientCost = CostSum(b.ingredientCosts)

\* a line was filled in from the ingredient database, next to a line with
\* another name and another cost
C12_Witness ==
    /\ handler = "selectIngredientFromDB"
    /\ Len(recipe.ingredients) = 2
    /\ recipe.ingredients[1].name # recipe.ingredients[2].name
    /\ GreaterThanZero(breakdown.ingredientCosts[1].cost)
    /\ GreaterThanZero(breakdown.ingredientCosts[2].cost)
    /\ breakdown.ingredientCosts[1].cost # breakdown.ingredientCosts[2].cost

Present(v, default) == IF v.t \in {"undefined", "null"} THEN default ELSE v

\* what C14 says process p costs under the Settings s and the recipe's rates
ClaimedProcessCost(p, s, gasRate, electricRate) ==
    LET power == Div(p.powerLevel, Whole(100))
        hours == Div(p.duration, Whole(60))
    IN  CASE p.stoveType = "gas" ->
                Mul(Div(Div(Mul(Mul(Present(p.burnerBTU, s.gasBurnerBTU),
                                    power), hours),
                            Whole(100000)),
                        s.gasBurnerEfficiency),
                    gasRate)
          [] p.stoveType = "electric" ->
                Mul(Div(Div(Mul(Mul(Present(p.burnerWattage,
                                            s.electricBurnerWattage),
                                    power), hours),
                            Whole(1000)),
                        s.electricBurnerEfficiency),
                    electricRate)
          [] p.stoveType = "induction" ->
                Mul(Div(Div(Mul(Mul(Present(p.burnerWattage,
                                            s.inductionBurnerWattage),
                                    power), hours),
                            Whole(1000)),
                        s.inductionBurnerEfficiency),
                    electricRate)

\* C14: each stovetop process is costed by its own stove type: gas from its
\* BTU override or the Settings BTU and the gas efficiency and rate,
\* electric and induction from the wattage override or the Settings wattage
\* of that type, that type's efficiency and the electric rate; an override
\* of the other technology is ignored.
C14_StovetopByType ==
    LET b == breakdown
    IN  /\ Len(b.stovetopCosts) = Len(recipe.stovetopProcesses)
        /\ \A i \in Processes :
              b.stovetopCosts[i].cost =
                 ClaimedProcessCost(recipe.stovetopProcesses[i], settings,
                                    recipe.gasRate, recipe.electricRate)

\* a process that keeps a BTU override was switched to electric and is
\* costed from its wattage override, next to an induction process costed from
\* the Settings wattage
C14_Witness ==
    /\ handler = "updateStovetopProcess"
    /\ Len(recipe.stovetopProcesses) = 2
    /\ recipe.stovetopProcesses[1].stoveType = "electric"
    /\ recipe.stovetopProcesses[1].burnerBTU = Whole(12000)
    /\ recipe.stovetopProcesses[1].burnerWattage = Whole(1000)
    /\ breakdown.stovetopCosts[1].cost = Num(119, 4500)
    /\ recipe.stovetopProcesses[2].stoveType = "induction"
    /\ recipe.stovetopProcesses[2].burnerWattage = Undefined
    /\ breakdown.stovetopCosts[2].cost = Num(21, 1000)

\* the energy total is the oven, the mixer and every process, and the mixer
\* costs (300 * mixerTime/60) / 1000 * electricRate
EnergyIsSum ==
    LET b == breakdown
    IN  /\ b.mixerCost =
              Mul(Div(Mul(Whole(300), Div(recipe.mixerTime, Whole(60))),
                      Whole(1000)),
                  recipe.electricRate)
        /\ b.totalEnergyCost =
              Add(Add(b.gasCost, b.mixerCost), CostSum(b.stovetopCosts))

\* the list without its element i
Without(list, i) == SubSeq(list, 1, i - 1) \o SubSeq(list, i + 1, Len(list))

\* a step that adds a process raises the energy total by the cost of the new
\* process, and a step that removes one lowers it by the cost that process had
ProcessDelta ==
    LET before == breakdown
        after == Calculate(recipe', settings')
        n == Len(recipe.stovetopProcesses)
    IN  /\ handler' = "addStovetopProcess" =>
              /\ Len(after.stovetopCosts) = n + 1
              /\ after.totalEnergyCost =
                    Add(before.totalEnergyCost, after.stovetopCosts[n + 1].cost)
        /\ handler' = "removeStovetopProcess" =>
              \E i \in 1..n :
                 /\ recipe'.stovetopProcesses =
                       Without(recipe.stovetopProcesses, i)
                 /\ before.totalEnergyCost =
                       Add(after.totalEnergyCost, before.stovetopCosts[i].cost)

\* C15: the total energy cost is the oven gas cost plus the mixer cost plus
\* the sum of the stovetop process costs, the mixer costing (300 *
\* mixerTime/60) / 1000 * electricRate, and adding or removing one process
\* changes the energy total by exactly that process's cost.
C15_EnergyTotal == []EnergyIsSum /\ [][ProcessDelta]_vars

\* the gas process of the sample recipe (cost 91/1000) was removed: what is
\* left is the oven (1), the mixer (17/1000) and the induction process
\* (21/1000)
C15_Witness ==
    /\ handler = "removeStovetopProcess"
    /\ Len(recipe.stovetopProcesses) = 1
    /\ breakdown.gasCost = Whole(1)
    /\ breakdown.mixerCost = Num(17, 1000)
    /\ breakdown.totalStovetopCost = Num(21, 1000)
    /\ breakdown.totalEnergyCost = Num(1038, 1000)


\* x - y
Minus(x, y) == Add(x, Mul(Whole(-1), y))

\* (laborTime / 60) * laborRate of the working recipe
LaborOfRecipe == Mul(Div(recipe.laborTime, Whole(60)), recipe.laborRate)

\* C16: in every state of the working recipe reachable by edits, loads and
\* new-recipe operations, grandTotal is ingredientTotal + energyTotal +
\* (laborTime/60)*laborRate + packagingCost*yieldQty, value for value and
\* with no rounding, and grandTotalWithoutLabor is grandTotal minus the labor
\* cost.
C16_GrandTotalAdditive ==
    LET b == breakdown
    IN  /\ b.grandTotal =
              Add(Add(Add(b.totalIngredientCost, b.totalEnergyCost),
                      LaborOfRecipe),
                  Mul(recipe.packagingCost, recipe.yieldQty))
        /\ b.grandTotalWithoutLabor = Minus(b.grandTotal, LaborOfRecipe)

\* the sample recipe was loaded: 1250/567 of ingredients, 1.129 of energy,
\* 10 of labor and 12 * 0.2 of packaging
C16_Witness ==
    /\ handler = "loadRecipe"
    /\ LaborOfRecipe = Whole(10)
    /\ Mul(recipe.packagingCost, recipe.yieldQty) = Num(12, 5)
    /\ breakdown.grandTotal = Num(8920943, 567000)
    /\ breakdown.grandTotalWithoutLabor = Num(3250943, 567000)


\* C17: when yieldQty > 0, costPerUnit is grandTotal / yieldQty and
\* costPerUnitWithoutLabor is grandTotalWithoutLabor / yieldQty; when yieldQty
\* is 0 or negative both are 0, no division by yieldQty takes place, and
\* grandTotal is still the sum of its components.
C17_PerUnitGuarded ==
    LET b == breakdown
        yieldQty == recipe.yieldQty
    IN  /\ yieldQty.t = "number"
        /\ yieldQty.n > 0 =>
              /\ b.costPerUnit = Div(b.grandTotal, yieldQty)
              /\ b.costPerUnitWithoutLabor =
                    Div(b.grandTotalWithoutLabor, yieldQty)
        /\ yieldQty.n <= 0 =>
              /\ b.costPerUnit = Whole(0)
              /\ b.costPerUnitWithoutLabor = Whole(0)
              /\ b.grandTotal =
                    Add(Add(Add(b.totalIngredientCost, b.totalEnergyCost),
                            b.totalLaborCost),
                        b.totalPackagingCost)

\* the yield was set to 0 on a recipe whose grand total is not 0
C17_Witness ==
    /\ recipe.yieldQty = Whole(0)
    /\ breakdown.grandTotal.t = "number"
    /\ breakdown.grandTotal.n > 0
    /\ breakdown.costPerUnit = Whole(0)
    /\ breakdown.costPerUnitWithoutLabor = Whole(0)

\* the same with a negative yield
C17_WitnessNegative ==
    /\ recipe.yieldQty = Whole(-1)
    /\ breakdown.grandTotal.t = "number"
    /\ breakdown.costPerUnit = Whole(0)


\* every cost of a list of breakdown lines is a finite number
AllFinite(costs) == \A i \in 1..Len(costs) : IsFinite(costs[i].cost)

\* the stovetop and energy figures of the breakdown are finite numbers
EnergyFiguresFinite ==
    LET b == breakdown
    IN  /\ AllFinite(b.stovetopCosts)
        /\ IsFinite(b.totalStovetopCost)
        /\ IsFinite(b.gasCost)
        /\ IsFinite(b.mixerCost)
        /\ IsFinite(b.totalEnergyCost)

\* C18: for every recipe and every Settings record the interface can
\* produce (zero package size, zero yield, zero durations and burner
\* efficiencies of 0 included) every figure of the breakdown (line costs,
\* oven, mixer, each stovetop cost, energy total, grand totals, per-unit
\* costs) is a defined finite number.
C18_FiniteBreakdown ==
    LET b == breakdown
    IN  /\ AllFinite(b.ingredientCosts)
        /\ IsFinite(b.totalIngredientCost)
        /\ EnergyFiguresFinite
        /\ IsFinite(b.totalLaborCost)
        /\ IsFinite(b.totalPackagingCost)
        /\ IsFinite(b.grandTotal)
        /\ IsFinite(b.grandTotalWithoutLabor)
        /\ IsFinite(b.costPerUnit)
        /\ IsFinite(b.costPerUnitWithoutLabor)


\* the step is one call of saveRecipeToCatalog
SaveStep == handler' = "saveRecipeToCatalog" /\ edits' = edits + 1

\* the stores of the catalog: the local state, localStorage and Firestore
CatalogStores ==
    <<localCatalog, localStorage, recipesCollection, firestoreCatalog,
      requests>>

\* a save was attempted: in Firestore mode one add or update was issued, in
\* local mode the new catalog holds the recipe and was written to
\* localStorage
SaveAttempted ==
    IF user
    THEN /\ Len(requests') = Len(requests) + 1
         /\ requests'[Len(requests')].op \in {"addDoc", "updateDoc"}
         /\ requests'[Len(requests')].data.recipeName = recipe.recipeName
    ELSE /\ \E i \in 1..Len(localCatalog') :
               localCatalog'[i].recipeName = recipe.recipeName
         /\ localStorage'.recipeCatalog = Item(JSONCatalog(localCatalog'))
         /\ localCatalog' # localCatalog

\* a save under an empty or whitespace name changes no store of the catalog
\* and issues no request; under any other name it is attempted, whatever the
\* rest of the recipe holds
SaveChecksNameOnly ==
    SaveStep =>
        IF trim(recipe.recipeName) = ""
        THEN UNCHANGED CatalogStores
        ELSE SaveAttempted

\* C20: saving a recipe whose name is empty or only whitespace is rejected:
\* the catalog (local state, localStorage and Firestore alike) is unchanged
\* and no add or update is issued; a non-blank name is the only precondition
\* checked before a save is attempted.
C20_BlankNameRejected == [][SaveChecksNameOnly]_vars

\* a save under the name "  " was rejected in Firestore mode
C20_Witness ==
    /\ handler = "saveRecipeToCatalog"
    /\ recipe.recipeName = "  "
    /\ alert = "Please enter a recipe name before saving!"
    /\ user
    /\ requests = <<>>

\* a save under the name "  " was rejected in local mode
C20_WitnessLocal ==
    /\ handler = "saveRecipeToCatalog"
    /\ recipe.recipeName = "  "
    /\ alert = "Please enter a recipe name before saving!"
    /\ ~user
    /\ localCatalog \in StoredCatalogs

\* a save under a name that is not blank went through
C20_WitnessSaved ==
    /\ handler = "saveRecipeToCatalog"
    /\ alert = "Recipe saved to catalog!"
    /\ recipe.recipeName = "Rolls"

(***************************************************************************)
(* Properties of the density keys, of the catalog and of the stores.       *)
(***************************************************************************)
\* the keys inserted before key k that occur in key k
ShadowingKeys(k) ==
    {j \in 1..(k - 1) :
        includes(INGREDIENT_DENSITIES[k][1], INGREDIENT_DENSITIES[j][1])}

\* C27: a density key that contains an earlier-inserted key is never the
\* one selected: for a name containing such a key guessIngredientDensity
\* returns the density of a key inserted before it (the first-inserted key
\* that occurs in the name), and for the key itself that of a shorter key
\* it contains: 'sugar' for 'powdered sugar', 'flour' for 'bread flour',
\* 'syrup' for 'maple syrup', 'cream' for 'cream cheese', 'milk' for
\* 'buttermilk' (whose own value happens to be the same 1.03).
C27_ShadowedKeyNeverSelected ==
    pc = "guessed" =>
        LET name == toLowerCase(ingredientName)
            m == MatchingKeys(ingredientName)
        IN  /\ \A k \in m :
                  ShadowingKeys(k) # {} =>
                      /\ \E j \in m :
                            /\ j < k
                            /\ \A i \in m : j <= i
                            /\ density = INGREDIENT_DENSITIES[j][2]
                      /\ name = INGREDIENT_DENSITIES[k][1] =>
                            \E j \in ShadowingKeys(k) :
                                density = INGREDIENT_DENSITIES[j][2]
            /\ name = "powdered sugar" =>
                  density = Dec(845, 3) /\ density # Dec(56, 2)
            /\ name = "bread flour" =>
                  density = Dec(528, 3) /\ density # Dec(54, 2)
            /\ name = "maple syrup" =>
                  density = Dec(137, 2) /\ density # Dec(133, 2)
            /\ name = "cream cheese" =>
                  density = Dec(101, 2) /\ density # Dec(104, 2)
            /\ name = "buttermilk" => density = Dec(103, 2)

\* 'maple syrup' (1.33) was looked up and the density of 'syrup' came back
C27_Witness ==
    /\ pc = "guessed"
    /\ ingredientName = "maple syrup"
    /\ ShadowingKeys(11) = {10}
    /\ INGREDIENT_DENSITIES[11] = <<"maple syrup", Dec(133, 2)>>
    /\ density = Dec(137, 2)

\* every key of the table that contains an earlier key was looked up
C27_WitnessBreadFlour ==
    /\ pc = "guessed"
    /\ ingredientName = "Bread Flour"
    /\ density = Dec(528, 3)


\* the step is one call of startNewRecipe
NewRecipeStep == handler' = "startNewRecipe" /\ edits' = edits + 1

\* the catalog, the ingredient database and the Settings, local and remote
StoresOfApp ==
    <<localStorage, localCatalog, localIngredientDB, localSettings,
      recipesCollection, ingredientsCollection, settingsDoc,
      firestoreCatalog, firestoreIngredientDB, firestoreSettings, awaited,
      requests>>

\* the working recipe is the empty recipe at the rates of Settings record s
ClearedRecipe(s) ==
    /\ recipe.recipeName = ""
    /\ recipe.ingredients = <<>>
    /\ recipe.stovetopProcesses = <<>>
    /\ \A f \in {"preheatTime", "bakeTime", "bakeTemp", "mixerTime",
                 "laborTime", "packagingCost", "yieldQty"} :
          recipe[f] = Whole(0)
    /\ recipe.laborRate = s.laborRate
    /\ recipe.gasRate = s.gasRate
    /\ recipe.electricRate = s.electricRate

\* every cost component and every total of the breakdown is 0
AllZero(b) ==
    /\ b.ingredientCosts = <<>>
    /\ b.stovetopCosts = <<>>
    /\ \A f \in {"totalIngredientCost", "gasCost", "mixerCost",
                 "totalStovetopCost", "totalEnergyCost", "totalLaborCost",
                 "totalPackagingCost", "grandTotal",
                 "grandTotalWithoutLabor", "costPerUnit",
                 "costPerUnitWithoutLabor"} :
          b[f] = Whole(0)

\* a startNewRecipe step leaves the stores alone; confirmed, it leaves the
\* empty recipe at the rates of the Settings and a breakdown of zeros;
\* declined, it leaves the working recipe as it was
NewRecipeClears ==
    NewRecipeStep =>
        /\ UNCHANGED StoresOfApp
        /\ \/ /\ alert' = "Started new recipe!"
              /\ ClearedRecipe(settings)'
              /\ AllZero(Calculate(recipe', settings'))
           \/ /\ alert' = ""
              /\ recipe' = recipe

\* C30: after a confirmed startNewRecipe the working recipe has no
\* ingredients and no stovetop processes, all times, packaging cost and
\* yield quantity are 0, and laborRate, gasRate and electricRate equal the
\* current Settings values, so every cost component, grandTotal,
\* grandTotalWithoutLabor and both per-unit costs are 0; the catalog, the
\* ingredient database and the Settings are unchanged, and a declined
\* confirmation changes nothing.
C30_NewRecipeIsEmpty == [][NewRecipeClears]_vars

\* the recipe was cleared after the labor rate of the Settings was changed
C30_Witness ==
    /\ handler = "startNewRecipe"
    /\ alert = "Started new recipe!"
    /\ settings.laborRate = Whole(25)
    /\ recipe.laborRate = Whole(25)
    /\ ClearedRecipe(settings)
    /\ AllZero(breakdown)

\* the names of a catalog are pairwise distinct
DistinctNames(c) ==
    \A i, j \in 1..Len(c) : c[i].recipeName = c[j].recipeName => i = j

\* a guest's save that passed the check of the name
GuestSave ==
    /\ SaveStep
    /\ ~user
    /\ ~blankName(recipe.recipeName)

\* a guest's save under the name of an entry puts the recipe at that entry's
\* place, with that entry's id, and leaves the other entries and the length
\* alone; under a new name it appends exactly one entry
GuestSaveReplacesOrAppends ==
    GuestSave =>
       LET old == localCatalog
           new == localCatalog'
           name == recipe.recipeName
       IN  IF \E i \in 1..Len(old) : old[i].recipeName = name
           THEN /\ Len(new) = Len(old)
                /\ \A i \in 1..Len(old) :
                      IF old[i].recipeName = name
                      THEN /\ new[i].recipeName = name
                           /\ new[i].id = old[i].id
                           /\ new[i].savedAt # old[i].savedAt
                      ELSE new[i] = old[i]
           ELSE /\ Len(new) = Len(old) + 1
                /\ SubSeq(new, 1, Len(old)) = old
                /\ new[Len(new)].recipeName = name

\* a guest's catalog has pairwise distinct names
GuestNamesDistinct == ~user => DistinctNames(localCatalog)

\* C21: in guest mode the names of the catalog stay pairwise distinct: a
\* save under the exact name of an entry replaces that entry in place, with
\* its id, its position and the length of the catalog kept, and a save under
\* a new name appends exactly one entry
C21_GuestNamesDistinct ==
    /\ []GuestNamesDistinct
    /\ [][GuestSaveReplacesOrAppends]_vars

\* a guest loaded the second of two entries and saved it again: it was
\* replaced in place
C21_Witness ==
    /\ ~user
    /\ handler = "saveRecipeToCatalog"
    /\ alert = "Recipe updated in catalog!"
    /\ Len(localCatalog) = 2
    /\ localCatalog[1] = SampleEntry
    /\ localCatalog[2].recipeName = "Rolls"
    /\ localCatalog[2].id = "2"
    /\ localCatalog[2].savedAt # RollsEntry.savedAt

\* a guest saved a recipe under a new name: it is the second entry, after
\* the built-in recipe
C21_WitnessAppended ==
    /\ ~user
    /\ handler = "saveRecipeToCatalog"
    /\ alert = "Recipe saved to catalog!"
    /\ Len(localCatalog) = 2
    /\ localCatalog[1] = defaultRecipes[1]
    /\ localCatalog[2].recipeName = "Rolls"

\* entry e holds the inputs of the working recipe and the figures of the
\* current render
HoldsRecipeAndFigures(e, b) ==
    /\ \A f \in RecipeInputs : e[f] = recipe[f]
    /\ e.totalCost = b.grandTotal
    /\ e.costPerUnit = b.costPerUnit
    /\ e.costPerUnitWithoutLabor = b.costPerUnitWithoutLabor

\* the entries of catalog new under a name other than the saved one are
\* those of catalog old, in the same places
OtherEntriesKept(old, new, name) ==
    /\ Len(new) >= Len(old)
    /\ \A i \in 1..Len(old) : old[i].recipeName # name => new[i] = old[i]

\* a save that passed the check of the name writes the working recipe and
\* the figures of the render, and touches no entry of another name; a
\* signed-in visitor's save does so in the document it adds or updates
SaveWritesSnapshot ==
    SaveStep /\ ~blankName(recipe.recipeName) =>
       LET b == breakdown
           name == recipe.recipeName
       IN  IF user
           THEN /\ HoldsRecipeAndFigures(requests'[Len(requests')].data, b)
                /\ OtherEntriesKept(recipesCollection, recipesCollection', name)
                /\ \A i \in 1..Len(recipesCollection') :
                      \/ /\ i <= Len(recipesCollection)
                         /\ recipesCollection'[i] = recipesCollection[i]
                      \/ HoldsRecipeAndFigures(recipesCollection'[i], b)
           ELSE /\ \E i \in 1..Len(localCatalog') :
                      /\ localCatalog'[i].recipeName = name
                      /\ HoldsRecipeAndFigures(localCatalog'[i], b)
                /\ OtherEntriesKept(localCatalog, localCatalog', name)

\* the catalog as it is kept: the local list, the stored list and the
\* Firestore documents
KeptCatalog == <<localCatalog, localStorage.recipeCatalog, recipesCollection>>

\* the handlers that load, edit, clear or configure
EditingHandlers ==
    {"setRecipeField", "addIngredient", "updateIngredient",
     "removeIngredient", "selectIngredientFromDB", "addStovetopProcess",
     "updateStovetopProcess", "removeStovetopProcess", "loadRecipe",
     "startNewRecipe", "updateSettings", "addPackagingOption",
     "updatePackagingOption", "deletePackagingOption", "toggleSettings",
     "addIngredientToDB", "updateIngredientInDB", "deleteIngredientFromDB"}

\* only a save or a delete changes the kept catalog
OnlySaveOrDeleteChanges ==
    /\ handler' \in EditingHandlers /\ edits' = edits + 1 =>
          UNCHANGED KeptCatalog
    /\ ~UNCHANGED <<localStorage.recipeCatalog, recipesCollection>> =>
          handler' \in {"saveRecipeToCatalog", "deleteRecipe"}

\* C22: a saved catalog entry equals the working recipe and the engine's
\* figures at the moment of the save, and loading it, editing the working
\* recipe afterwards, starting a new recipe and Settings updates leave it
\* unchanged; only a save under the same name or a delete changes it
C22_EntryIsSnapshot ==
    [][SaveWritesSnapshot /\ OnlySaveOrDeleteChanges]_vars

\* a guest's entry saved at a labor time of 60 stays as it was while the
\* working recipe, loaded from it, is edited to a gas rate of 1.5
C22_Witness ==
    /\ ~user
    /\ handler = "setRecipeField"
    /\ recipe.recipeName = "Rolls"
    /\ recipe.gasRate = Dec(15, 1)
    /\ localCatalog = <<SampleEntry, RollsEntry>>
    /\ localCatalog[2].gasRate = Dec(26, 1)

\* a guest saved the recipe loaded from the first entry: the entry holds
\* the total the render showed
C22_WitnessSaved ==
    /\ ~user
    /\ handler = "saveRecipeToCatalog"
    /\ alert = "Recipe updated in catalog!"
    /\ recipe.recipeName = SampleEntry.recipeName
    /\ localCatalog[1].totalCost = breakdown.grandTotal
    /\ localCatalog[1].savedAt # SampleEntry.savedAt

\* the rates, burner ratings and efficiencies of a Settings record
EngineSettings ==
    {"laborRate", "gasRate", "electricRate", "gasBurnerBTU",
     "electricBurnerWattage", "inductionBurnerWattage",
     "gasBurnerEfficiency", "electricBurnerEfficiency",
     "inductionBurnerEfficiency"}

\* the Settings record the engine reads has every rate, burner rating and
\* efficiency defined
SettingsDefined ==
    \A f \in EngineSettings :
       /\ f \in DOMAIN settings
       /\ settings[f].t \notin {"undefined", "null"}

\* record s is record stored completed with the built-in default values:
\* a field of the stored record that is there (and, if nullable, not null)
\* is kept, every other field has its default value
Completed(s, stored, default, nullable) ==
    /\ DOMAIN default \subseteq DOMAIN s
    /\ \A f \in DOMAIN default :
          s[f] = IF f \notin DOMAIN stored THEN default[f]
                 ELSE IF f \in nullable /\ stored[f].t \in {"undefined", "null"}
                      THEN default[f]
                      ELSE stored[f]

\* at the first render, and at every later start, a guest's Settings are the
\* built-in defaults if none are stored and the stored ones completed
\* otherwise; a signed-in visitor's are the built-in defaults until the
\* first snapshot
SettingsAtStart ==
    handler \in {"", "reload"} =>
       /\ firestoreSettings = DefaultFirestoreSettings
       /\ IF localStorage.settings = NoItem
          THEN localSettings = DefaultLocalSettings
          ELSE Completed(localSettings, localStorage.settings[1],
                         DefaultLocalSettings, EngineSettings)

\* the snapshot of a settings document that does not exist writes the
\* defaults to it and exposes them; the snapshot of one that exists exposes
\* it completed with the defaults
SnapshotGivesDefaults ==
    user /\ firestoreSettings' # firestoreSettings
         /\ handler' = "onDocSnapshot" =>
       IF settingsDoc = NoItem
       THEN /\ settingsDoc' = Item(DefaultFirestoreSettings)
            /\ requests' = Append(requests,
                  [op |-> "setDoc", path |-> "settings/data",
                   data |-> DefaultFirestoreSettings])
            /\ firestoreSettings' = DefaultFirestoreSettings
       ELSE /\ Completed(firestoreSettings', settingsDoc[1],
                         DefaultFirestoreSettings, {})
            /\ UNCHANGED <<settingsDoc, requests>>

C23_WitnessCreated ==
    /\ user
    /\ handler = "onDocSnapshot"
    /\ requests = <<[op |-> "setDoc", path |-> "settings/data",
                     data |-> DefaultFirestoreSettings]>>
    /\ settingsDoc = Item(DefaultFirestoreSettings)
    /\ firestoreSettings = DefaultFirestoreSettings

\* a guest started with stored Settings that have no stovetop fields
C23_WitnessGuest ==
    /\ ~user
    /\ handler = "reload"
    /\ localStorage.settings = Item(StoredSettings)
    /\ localSettings.laborRate = Whole(25)
    /\ localSettings.inductionBurnerEfficiency = Dec(85, 2)

\* what Firestore holds and the requests sent to it
FirestoreSide ==
    <<recipesCollection, ingredientsCollection, settingsDoc, awaited,
      requests>>

\* localStorage got the item under the key and nothing else
Written(key, item) == localStorage' = [localStorage EXCEPT ![key] = Item(item)]

\* a guest's mutation of the catalog is applied to the local catalog and
\* written under 'recipeCatalog'
GuestCatalogMutation ==
    /\ SaveStep /\ ~blankName(recipe.recipeName) =>
          /\ \E i \in 1..Len(localCatalog') :
                localCatalog'[i].recipeName = recipe.recipeName
          /\ localCatalog' # localCatalog
          /\ Written("recipeCatalog", JSONCatalog(localCatalog'))
    /\ handler' = "deleteRecipe" /\ alert' = "Recipe deleted!" =>
          /\ Len(localCatalog') = Len(localCatalog) - 1
          /\ Written("recipeCatalog", JSONCatalog(localCatalog'))

\* a guest's mutation of the ingredient database is applied to the local
\* database and written under 'ingredientDatabase'
GuestIngredientMutation ==
    /\ handler' = "addIngredientToDB" =>
          /\ Len(localIngredientDB') = Len(localIngredientDB) + 1
          /\ Written("ingredientDatabase", JSONIngredientDB(localIngredientDB'))
    /\ handler' = "updateIngredientInDB" =>
          /\ Len(localIngredientDB') = Len(localIngredientDB)
          /\ \E i \in 1..Len(localIngredientDB'), in \in IngredientDBInputs :
                localIngredientDB'[i][in[1]] = in[2]
          /\ Written("ingredientDatabase", JSONIngredientDB(localIngredientDB'))
    /\ (handler' = "deleteIngredientFromDB"
          /\ alert' = "Ingredient deleted from database!") =>
          /\ Len(localIngredientDB') = Len(localIngredientDB) - 1
          /\ Written("ingredientDatabase", JSONIngredientDB(localIngredientDB'))

\* a guest's mutation of the Settings is applied to the local Settings and
\* written under 'settings'
GuestSettingsMutation ==
    /\ handler' = "updateSettings" =>
          /\ \E in \in SettingsInputs : localSettings'[in[1]] = in[2]
          /\ Written("settings", JSONSettings(localSettings'))
    /\ handler' = "addPackagingOption" =>
          /\ Len(localSettings'.packagingOptions) =
                Len(localSettings.packagingOptions) + 1
          /\ Written("settings", JSONSettings(localSettings'))
    /\ handler' = "updatePackagingOption" =>
          /\ \E i \in 1..Len(localSettings'.packagingOptions) :
                \E in \in PackagingInputs :
                   localSettings'.packagingOptions[i][in[1]] = in[2]
          /\ Written("settings", JSONSettings(localSettings'))
    /\ (handler' = "deletePackagingOption"
          /\ alert' = "Packaging option deleted!") =>
          /\ Len(localSettings'.packagingOptions) =
                Len(localSettings.packagingOptions) - 1
          /\ Written("settings", JSONSettings(localSettings'))

\* the functions of the two hooks, called by a guest, change nothing
HooksAreNoOps ==
    LET none == UNCHANGED <<recipesCollection, ingredientsCollection,
                            requests>>
    IN  /\ \A path \in {"recipes", "ingredients"} :
              /\ add(path, recipe) <=> none
              /\ update(path, "1", recipe) <=> none
              /\ remove(path, "1") <=> none
              /\ set(path, "1", recipe) <=> none
        /\ docUpdate([laborRate |-> Whole(0)]) <=>
              UNCHANGED <<settingsDoc, awaited, requests>>

\* a step of a guest
GuestStep ==
    ~user /\ edits' = edits + 1 =>
       /\ GuestCatalogMutation
       /\ GuestIngredientMutation
       /\ GuestSettingsMutation
       /\ UNCHANGED FirestoreSide
       /\ HooksAreNoOps

\* C24: in guest mode every mutation of the recipe catalog, the ingredient
\* database and the Settings record is applied to local state and written
\* to localStorage under its key, and none issues a Firestore write; add,
\* update, remove and set of the Firestore hooks are no-ops without a
\* signed-in user
C24_GuestIsLocal == [][GuestStep]_vars

\* a guest deleted the second entry of the catalog: the list of one entry
\* is in local state and in localStorage, and no request was sent
C24_Witness ==
    /\ ~user
    /\ handler = "deleteRecipe"
    /\ alert = "Recipe deleted!"
    /\ localCatalog = <<SampleEntry>>
    /\ localStorage.recipeCatalog = Item(<<SampleEntry>>)
    /\ requests = <<>>

\* a guest set the labor rate of the Settings
C24_WitnessSettings ==
    /\ ~user
    /\ handler = "updateSettings"
    /\ localSettings.laborRate = Whole(25)
    /\ localStorage.settings # NoItem
    /\ localStorage.settings[1].laborRate = Whole(25)
    /\ settingsDoc = NoItem

\* a guest added an entry to the ingredient database
C24_WitnessIngredient ==
    /\ ~user
    /\ handler = "addIngredientToDB"
    /\ localStorage.ingredientDatabase = Item(JSONIngredientDB(localIngredientDB))
    /\ Len(localIngredientDB) = Len(defaultIngredients) + 1
    /\ ingredientsCollection = <<>>

\* no two documents of the recipes collection have the same name
OneDocumentPerName == DistinctNames(recipesCollection)

\* a signed-in visitor's save under the name of a document updates that
\* document and adds none
SignedInSaveOverwrites ==
    /\ SaveStep
    /\ user
    /\ \E i \in 1..Len(recipesCollection) :
          recipesCollection[i].recipeName = recipe.recipeName
    => /\ Len(recipesCollection') = Len(recipesCollection)
       /\ requests'[Len(requests')].op = "updateDoc"

\* C25: in Firestore mode a save under the name of a document written by an
\* earlier save overwrites that document instead of adding a second one,
\* also when it starts before the snapshot listener has delivered that
\* document to the local copy of the catalog; no interleaving of saves
\* leaves two documents of the catalog with the same name
C25_SaveOverwritesDocument ==
    /\ []OneDocumentPerName
    /\ [][SignedInSaveOverwrites]_vars

\* the fields in which record b differs from record a
ChangedFields(a, b) ==
    {f \in DOMAIN a \cup DOMAIN b :
        f \notin DOMAIN a \/ f \notin DOMAIN b \/ a[f] # b[f]}

\* the handlers that update one field of the Settings
SettingsHandlers ==
    {"updateSettings", "addPackagingOption", "updatePackagingOption",
     "deletePackagingOption"}

\* a signed-in visitor's update changes at most one field of the stored
\* settings document
UpdateKeepsOtherFields ==
    /\ user
    /\ handler' \in SettingsHandlers
    /\ settingsDoc # NoItem
    => Cardinality(ChangedFields(settingsDoc[1], settingsDoc'[1])) <= 1

\* the documents written to settings/data, in the order of the writes
SettingsWrites ==
    SelectSeq(requests, LAMBDA r : r.op = "setDoc" /\ r.path = "settings/data")

\* every write of the settings document differs from the write before it
\* in at most the one field it updates
WritesKeepOtherFields ==
    \A k \in 1..(Len(SettingsWrites) - 1) :
       Cardinality(ChangedFields(SettingsWrites[k].data,
                                 SettingsWrites[k + 1].data)) <= 1

\* C26: a Settings update of one field leaves every other field at its most
\* recently written value: when a signed-in visitor issues two updates of
\* different fields before the local copy of the hook has refreshed, the
\* stored document afterwards holds both new values
C26_UpdateKeepsOtherFields ==
    /\ []WritesKeepOtherFields
    /\ [][UpdateKeepsOtherFields]_vars

\* a step of loadRecipe
LoadStep == handler' = "loadRecipe" /\ edits' = edits + 1

\* the working recipe after the step holds the inputs of entry e, and an
\* empty process list if e has none
LoadedFrom(e) ==
    /\ \A f \in RecipeInputs \cap DOMAIN e : recipe'[f] = e[f]
    /\ "stovetopProcesses" \notin DOMAIN e => recipe'.stovetopProcesses = <<>>

\* every load sets the working recipe from one entry of the catalog
LoadIsFaithful == LoadStep => \E i \in 1..Len(catalog) : LoadedFrom(catalog[i])

\* the time stamp written by the save that the last handler made
LastSavedAt == "saved at 17000000000" \o NatToString(10 + edits - 1)

\* the entries of the catalog on screen written by the last save
LastSaved ==
    {i \in 1..Len(catalog) :
        /\ catalog[i].savedAt = LastSavedAt
        /\ catalog[i].recipeName = recipe.recipeName
        /\ \A j \in 1..Len(catalog) :
              catalog[j].recipeName = recipe.recipeName => j = i}

\* the figures of record b are those entry e holds
FiguresOf(e, b) ==
    /\ b.grandTotal = e.totalCost
    /\ b.costPerUnit = e.costPerUnit
    /\ b.costPerUnitWithoutLabor = e.costPerUnitWithoutLabor

\* no snapshot has changed the Settings since the save: the figures on
\* screen, computed from the recipe that was saved, are the saved ones
SettingsAsAtSave == \A i \in LastSaved : FiguresOf(catalog[i], breakdown)

\* a load of the entry just saved, with no handler in between: every input
\* of the working recipe is what it was at the save and, if the Settings
\* have not changed, the figures computed from it are those the entry holds
SaveThenLoad ==
    /\ LoadStep
    /\ alert \in SavedAlerts
    /\ LastSaved # {}
    /\ recipe'.recipeName = recipe.recipeName
    => /\ settings' = settings
       /\ recipe' = recipe
       /\ SettingsAsAtSave =>
             \A i \in LastSaved :
                FiguresOf(catalog[i], Calculate(recipe', settings'))

C28_WitnessFirestore ==
    /\ user
    /\ handler = "loadRecipe"
    /\ edits = 3
    /\ recipe.recipeName = "Rolls"
    /\ \E i \in 1..Len(firestoreCatalog) :
          firestoreCatalog[i].savedAt = "saved at 1700000000011"

\* the entry saved without stovetopProcesses was loaded
C28_WitnessNoProcesses ==
    /\ handler = "loadRecipe"
    /\ edits = 1
    /\ recipe.recipeName = "Rolls"
    /\ recipe.laborTime = Whole(60)
    /\ recipe.stovetopProcesses = <<>>
    /\ \E i \in 1..Len(catalog) :
          /\ catalog[i].recipeName = "Rolls"
          /\ "stovetopProcesses" \notin DOMAIN catalog[i]

\* list is what a start shows for the item of localStorage: the stored list
\* when there is one and it is not empty, the built-in list otherwise
ShownAtStart(list, item, builtIn) ==
    IF item = NoItem THEN list = builtIn
    ELSE IF Len(item[1]) = 0 THEN list = builtIn
    ELSE list = item[1]

\* the application has just started
JustStarted == handler \in {"", "reload"}

\* C29: in guest mode the catalog at start-up is the list stored in
\* localStorage when that list is not empty, and the built-in recipes when
\* it is absent or empty, so that a catalog emptied by deleting every recipe
\* is replaced by the built-in recipes at the next start; the same rule
\* holds for the ingredient database
C29_StartupCatalog ==
    ~user /\ JustStarted =>
       /\ ShownAtStart(catalog, localStorage.recipeCatalog, defaultRecipes)
       /\ ShownAtStart(ingredientDB, localStorage.ingredientDatabase,
                       defaultIngredients)

\* a guest deleted the only recipe and started the application again: the
\* stored list is empty and the built-in recipes are shown
C29_Witness ==
    /\ ~user
    /\ handler = "reload"
    /\ localStorage.recipeCatalog = Item(<<>>)
    /\ catalog = defaultRecipes

\* a guest started again with a stored catalog of one entry
C29_WitnessStored ==
    /\ ~user
    /\ handler = "reload"
    /\ localStorage.recipeCatalog = Item(<<SampleEntry>>)
    /\ catalog = <<SampleEntry>>

\* a guest started again after adding an entry to the ingredient database
C29_WitnessIngredients ==
    /\ ~user
    /\ handler = "reload"
    /\ localStorage.ingredientDatabase # NoItem
    /\ Len(ingredientDB) = Len(defaultIngredients) + 1
    /\ ingredientDB = localStorage.ingredientDatabase[1]

====
